---- MODULE Spec2Model ----
(***************************************************************************)
(* Credential pool of the perplexity gateway: ClientWrapper and ClientPool *)
(* (src/perplexity/server/client_pool.py) and the request path run_query   *)
(* (src/perplexity/server/app.py, src/perplexity/mcp_server.py).           *)
(*                                                                         *)
(* A pool method whose body is one `with self._lock` block is one atomic   *)
(* action; the methods that are not (test_client, test_all_clients,        *)
(* update_heartbeat_config, the user-info queries) are taken apart into    *)
(* their steps.  Time is time.time() in whole seconds.                     *)
(***************************************************************************)
EXTENDS Integers, Sequences, FiniteSets, TLC

VARIABLES
    clients,         \* ClientPool.clients: id -> ClientWrapper
    client_order,    \* key order of the dict ClientPool.clients
    rotation_order,  \* ClientPool._rotation_order
    index,           \* ClientPool._index
    mode,            \* ClientPool._mode
    now,             \* time.time()
    ret,             \* value returned by the pool call of the last step
    pc,              \* run_query: where each request worker stands
    req,             \* run_query: locals of each request worker
    reported,        \* run_query: outcomes each worker has reported, in order
    got,             \* observer: the two latest get_client selections
    rounds,          \* observer: acquire+success rounds of the literal scenario
    fair,            \* observer: selection counts over a window of rounds
    streak,          \* observer: the reports since a record's last success or reset
    call,            \* observer: the admin call of the last step
    probe,           \* test_client: locals of each running probe
    sent,            \* notifications handed to _send_telegram_notification
    heartbeat_config, \* ClientPool._heartbeat_config
    file,            \* the config file at ClientPool._config_path
    tick,            \* test_all_clients: the id snapshot and each task's slot
    task,            \* _heartbeat_loop: where the background task stands
    lock,            \* ClientPool._lock: the thread that holds it
    thr              \* pool calls in progress, one per thread

poolVars == <<clients, client_order, rotation_order, index, mode, now, ret>>
reqVars == <<pc, req, reported>>
obsVars == <<got, rounds, fair, streak, call>>
probeVars == <<probe, sent>>
hbVars == <<heartbeat_config, file, tick, task>>
lockVars == <<lock, thr>>
vars == <<clients, client_order, rotation_order, index, mode, now, ret,
          pc, req, reported, got, rounds, fair, streak, call, probe, sent,
          heartbeat_config, file, tick, task, lock, thr>>

\* the heartbeat and the lock are left out of a specification
NoHeartbeat ==
    /\ heartbeat_config = <<>>
    /\ file = <<>>
    /\ tick = <<>>
    /\ task = <<>>
    /\ lock = <<>>
    /\ thr = <<>>

----------------------------------------------------------------------------
(* Program constants of ClientWrapper.                                     *)

DEFAULT_WEIGHT == 100
MIN_WEIGHT == 10
WEIGHT_DECAY == 10
WEIGHT_RECOVERY == 5
INITIAL_BACKOFF == 60
MAX_BACKOFF == 3600

(* Bounds of the model.                                                    *)

PoolMaxReports == 2   \* Spec: outcome reports the records of the pool bear
PoolMaxTicks == 1     \* Spec: clock advances
RecMaxFail == 8       \* SpecRecord: consecutive generic failures of the record
RecMaxPro == 10       \* SpecRecord: capability failures of the record
RecMaxReq == 2        \* SpecRecord: successes of the record
RecMaxTicks == 1      \* SpecRecord: clock advances
RoundsMaxPro == 5     \* SpecRounds: capability failures the records bear
RoundsMaxProAB == 1   \* SpecRounds: capability failures of A and of B
RoundsMaxReq == 4     \* SpecRounds: successes per record
FairMaxPro == 3       \* SpecFair: capability failures the records bear
FairMaxReq == 3       \* SpecFair: successes per record
QueryMaxReq == 3      \* SpecQuery: requests the workers serve
QueryMaxTicks == 1    \* SpecQuery: clock advances
AdminMaxReports == 1  \* SpecAdmin: outcome reports the records of the pool bear
ResetMaxReports == 2  \* SpecReset: outcome reports the records of the pool bear
ResetMaxSent == 1     \* SpecReset: notifications sent
EquivMaxReports == 6  \* SpecEquiv: outcome reports before the reset
EquivMaxSucc == 3     \* SpecEquiv: successes after the reset
ProbeMaxSent == 3     \* SpecProbe: notifications sent
ProbeMaxTicks == 1    \* SpecProbe: clock advances
TickPoolSize == 6     \* SpecTick: records of the pool
CreateMaxReports == 2 \* SpecCreate: outcome reports the records of the pool bear
LockMaxReports == 1   \* SpecLock: outcome reports the records of the pool bear
OverlapMaxSent == 2   \* SpecOverlap: notifications sent
LoopMaxSent == 1      \* SpecLoop: notifications sent
SaveMaxCalls == 2     \* SpecSave: calls of a thread
CursorMaxReports == 1 \* SpecCursor: outcome reports the records bear

None == "None"
Ids == {"A", "B", "C"}

Min(a, b) == IF a <= b THEN a ELSE b
Max(a, b) == IF a >= b THEN a ELSE b

RECURSIVE Pow2(_)
Pow2(n) == IF n <= 0 THEN 1 ELSE 2 * Pow2(n - 1)

Range(s) == {s[i] : i \in 1..Len(s)}

RECURSIVE RemoveFirst(_, _)
\* list.remove(x): delete the first occurrence of x
RemoveFirst(s, x) ==
    IF s = <<>> THEN <<>>
    ELSE IF Head(s) = x THEN Tail(s)
    ELSE <<Head(s)>> \o RemoveFirst(Tail(s), x)

RECURSIVE Filter(_, _)
\* [x for x in s if x in keep]
Filter(s, keep) ==
    IF s = <<>> THEN <<>>
    ELSE IF Head(s) \in keep THEN <<Head(s)>> \o Filter(Tail(s), keep)
    ELSE Filter(Tail(s), keep)

----------------------------------------------------------------------------
(* ClientWrapper                                                           *)

\* mutant of NewWrapper: a record without cookies starts as anonymous
NewWrapperByOwner(own) ==
    [own |-> own, fail_count |-> 0, available_after |-> 0,
     request_count |-> 0, weight |-> DEFAULT_WEIGHT, pro_fail_count |-> 0,
     enabled |-> TRUE, state |-> IF own THEN "unknown" ELSE "anonymous",
     last_heartbeat |-> <<>>]

\* ClientWrapper.__init__; last_heartbeat is <<>> for None and <<t>> for the
\* time t of the last probe
NewWrapper(own) ==
    [own |-> own,
     fail_count |-> 0,
     available_after |-> 0,
     request_count |-> 0,
     weight |-> DEFAULT_WEIGHT,
     pro_fail_count |-> 0,
     enabled |-> TRUE,
     state |-> "unknown",
     last_heartbeat |-> <<>>]

\* mutant of is_available: the cooldown is not looked at
is_available_ignoring_cooldown(w, t) == w.enabled

\* ClientWrapper.is_available at time t
is_available(w, t) == w.enabled /\ t >= w.available_after

\* mutant of Backoff: the backoff is not capped by MAX_BACKOFF
BackoffUncapped(fail_count) == INITIAL_BACKOFF * Pow2(fail_count - 1)

\* the backoff of mark_failure after the fail_count-th consecutive failure
Backoff(fail_count) ==
    Min(MAX_BACKOFF, INITIAL_BACKOFF * Pow2(fail_count - 1))

\* mutant of mark_failure: the failure is not counted
mark_failure_uncounted(w, t) ==
    [w EXCEPT !.available_after = t + Backoff(w.fail_count + 1)]

\* ClientWrapper.mark_failure at time t
mark_failure(w, t) ==
    [w EXCEPT !.fail_count = w.fail_count + 1,
              !.available_after = t + Backoff(w.fail_count + 1)]

\* mutant of mark_success: the cooldown deadline is not cleared
mark_success_keeps_cooldown(w) ==
    [w EXCEPT !.fail_count = 0,
              !.request_count = w.request_count + 1,
              !.weight = IF w.weight < DEFAULT_WEIGHT
                         THEN Min(DEFAULT_WEIGHT, w.weight + WEIGHT_RECOVERY)
                         ELSE w.weight]

\* ClientWrapper.mark_success
mark_success(w) ==
    [w EXCEPT !.fail_count = 0,
              !.available_after = 0,
              !.request_count = w.request_count + 1,
              !.weight = IF w.weight < DEFAULT_WEIGHT
                         THEN Min(DEFAULT_WEIGHT, w.weight + WEIGHT_RECOVERY)
                         ELSE w.weight]

\* mutant of mark_pro_failure: the weight is not held at MIN_WEIGHT
mark_pro_failure_no_floor(w) ==
    [w EXCEPT !.pro_fail_count = w.pro_fail_count + 1,
              !.weight = w.weight - WEIGHT_DECAY]

\* mutant of mark_pro_failure: the failure also counts as a generic one
mark_pro_failure_counts_failure(w) ==
    [w EXCEPT !.pro_fail_count = w.pro_fail_count + 1,
              !.fail_count = w.fail_count + 1,
              !.weight = Max(MIN_WEIGHT, w.weight - WEIGHT_DECAY)]

\* ClientWrapper.mark_pro_failure
mark_pro_failure(w) ==
    [w EXCEPT !.pro_fail_count = w.pro_fail_count + 1,
              !.weight = Max(MIN_WEIGHT, w.weight - WEIGHT_DECAY)]

----------------------------------------------------------------------------
(* ClientPool: construction                                                *)

\* the dict after d[id] = w: a new key goes to the end of the key order
DictPut(d, order, id, w) ==
    [map |-> [k \in (DOMAIN d) \cup {id} |-> IF k = id THEN w ELSE d[k]],
     order |-> IF id \in DOMAIN d THEN order ELSE Append(order, id)]

RECURSIVE LoadTokens(_, _, _, _)
\* the loop of _load_from_config over the token entries, each a cookie-
\* authenticated client added by _add_client_internal
LoadTokens(tokens, d, order, rot) ==
    IF tokens = <<>> THEN [map |-> d, order |-> order, rot |-> rot]
    ELSE LET p == DictPut(d, order, Head(tokens), NewWrapper(TRUE))
         IN  LoadTokens(Tail(tokens), p.map, p.order, Append(rot, Head(tokens)))

\* token lists of the config files the pool is bootstrapped from
Configs ==
    {<<"A">>, <<"A", "B">>, <<"A", "B", "C">>}

NoRet == [op |-> "none"]

\* ClientPool.__init__ with a config file: _initialize -> _load_from_config
InitPool(tokens) ==
    LET l == LoadTokens(tokens, <<>>, <<>>, <<>>)
    IN  /\ clients = l.map
        /\ client_order = l.order
        /\ rotation_order = l.rot
        /\ index = 0
        /\ mode = "pool"
        /\ now = 0
        /\ ret = NoRet

----------------------------------------------------------------------------
(* ClientPool: admin mutations                                             *)

Status(op, id, status) == [op |-> op, status |-> status]

\* ClientPool.add_client
AddClient(id) ==
    /\ IF id \in DOMAIN clients
       THEN /\ ret' = Status("add", id, "error")
            /\ UNCHANGED <<clients, client_order, rotation_order, mode>>
       ELSE LET p == DictPut(clients, client_order, id, NewWrapper(TRUE))
            IN  /\ clients' = p.map
                /\ client_order' = p.order
                /\ rotation_order' = Append(rotation_order, id)
                /\ mode' = IF mode \in {"single", "anonymous"}
                              /\ Cardinality(DOMAIN p.map) > 1
                           THEN "pool" ELSE mode
                /\ ret' = Status("add", id, "ok")
    /\ UNCHANGED <<index, now>>

\* ClientPool.remove_client
RemoveClient(id) ==
    /\ IF id \notin DOMAIN clients \/ Cardinality(DOMAIN clients) <= 1
       THEN /\ ret' = Status("remove", id, "error")
            /\ UNCHANGED <<clients, client_order, rotation_order, index>>
       ELSE /\ clients' = [k \in (DOMAIN clients) \ {id} |-> clients[k]]
            /\ client_order' = RemoveFirst(client_order, id)
            /\ rotation_order' = RemoveFirst(rotation_order, id)
            /\ index' = IF index >= Len(rotation_order') THEN 0 ELSE index
            /\ ret' = Status("remove", id, "ok")
    /\ UNCHANGED <<mode, now>>

\* ClientPool.enable_client
EnableClient(id) ==
    /\ IF id \notin DOMAIN clients
       THEN /\ ret' = Status("enable", id, "error")
            /\ UNCHANGED clients
       ELSE /\ clients' = [clients EXCEPT ![id].enabled = TRUE]
            /\ ret' = Status("enable", id, "ok")
    /\ UNCHANGED <<client_order, rotation_order, index, mode, now>>

\* mutant of EnabledCount: every record counts, enabled or not
RecordCount(d) == Cardinality(DOMAIN d)

\* enabled_count of disable_client
EnabledCount(d) == Cardinality({k \in DOMAIN d : d[k].enabled})

\* mutant of DisableClient: the flag is cleared before the refusal
DisableClientThenRefuse(id) ==
    /\ IF id \notin DOMAIN clients
       THEN /\ ret' = Status("disable", id, "error")
            /\ UNCHANGED clients
       ELSE /\ clients' = [clients EXCEPT ![id].enabled = FALSE]
            /\ ret' = Status("disable", id,
                             IF EnabledCount(clients) <= 1 /\ clients[id].enabled
                             THEN "error" ELSE "ok")
    /\ UNCHANGED <<client_order, rotation_order, index, mode, now>>

\* ClientPool.disable_client
DisableClient(id) ==
    /\ IF id \notin DOMAIN clients
          \/ (EnabledCount(clients) <= 1 /\ clients[id].enabled)
       THEN /\ ret' = Status("disable", id, "error")
            /\ UNCHANGED clients
       ELSE /\ clients' = [clients EXCEPT ![id].enabled = FALSE]
            /\ ret' = Status("disable", id, "ok")
    /\ UNCHANGED <<client_order, rotation_order, index, mode, now>>

\* mutant of ResetClient: the weight is left as it is
ResetClientKeepsWeight(id) ==
    /\ IF id \notin DOMAIN clients
       THEN /\ ret' = Status("reset", id, "error")
            /\ UNCHANGED clients
       ELSE /\ clients' = [clients EXCEPT ![id].fail_count = 0,
                                          ![id].pro_fail_count = 0,
                                          ![id].available_after = 0]
            /\ ret' = Status("reset", id, "ok")
    /\ UNCHANGED <<client_order, rotation_order, index, mode, now>>

\* mutant of ResetClient: a fresh wrapper takes the place of the record
ResetClientAfresh(id) ==
    /\ IF id \notin DOMAIN clients
       THEN /\ ret' = Status("reset", id, "error")
            /\ UNCHANGED clients
       ELSE /\ clients' = [clients EXCEPT ![id] = NewWrapper(clients[id].own)]
            /\ ret' = Status("reset", id, "ok")
    /\ UNCHANGED <<client_order, rotation_order, index, mode, now>>

\* ClientPool.reset_client
ResetClient(id) ==
    /\ IF id \notin DOMAIN clients
       THEN /\ ret' = Status("reset", id, "error")
            /\ UNCHANGED clients
       ELSE /\ clients' = [clients EXCEPT ![id].fail_count = 0,
                                          ![id].pro_fail_count = 0,
                                          ![id].available_after = 0,
                                          ![id].weight = DEFAULT_WEIGHT]
            /\ ret' = Status("reset", id, "ok")
    /\ UNCHANGED <<client_order, rotation_order, index, mode, now>>

----------------------------------------------------------------------------
(* ClientPool: selection                                                   *)

\* the ids of rot whose wrapper is available at time t, in rotation order
AvailableIds(d, rot, t) ==
    Filter(rot, {k \in DOMAIN d : is_available(d[k], t)})

\* mutant of MaxWeight: the smallest weight is taken
MinWeightOf(d, avail) ==
    CHOOSE m \in {d[k].weight : k \in Range(avail)} :
        \A k \in Range(avail) : d[k].weight >= m

\* max(w.weight for w in available_wrappers)
MaxWeight(d, avail) ==
    CHOOSE m \in {d[k].weight : k \in Range(avail)} :
        \A k \in Range(avail) : d[k].weight <= m

\* top_weight_clients: the available wrappers of the highest weight
TopWeight(d, avail) ==
    Filter(avail, {k \in Range(avail) : d[k].weight = MaxWeight(d, avail)})

\* min(self.clients.values(), key=available_after): the first wrapper, in
\* the key order of the dict, of the smallest available_after
Soonest(d, order) ==
    LET i == CHOOSE i \in 1..Len(order) :
                 /\ \A j \in 1..Len(order) :
                        d[order[i]].available_after <= d[order[j]].available_after
                 /\ \A j \in 1..(i - 1) :
                        d[order[j]].available_after > d[order[i]].available_after
    IN  order[i]

\* mutant of ScanSteps: the cursor moves on before the first id is read
ScanStepsSkipFirst(rot, idx, top, k) ==
    LET hits == {j \in 2..(Len(rot) + 1) :
                    rot[((idx + j - 1) % Len(rot)) + 1] \in top}
    IN  IF hits = {} THEN Len(rot) + 1
        ELSE (CHOOSE j \in hits : \A i \in hits : j <= i) - 1

\* the round-robin loop of get_client: the number of cursor positions
\* visited until an id of top is met, len(rot) + 1 if none is
RECURSIVE ScanSteps(_, _, _, _)
ScanSteps(rot, idx, top, k) ==
    IF k > Len(rot) THEN k
    ELSE IF rot[((idx + k - 1) % Len(rot)) + 1] \in top THEN k
    ELSE ScanSteps(rot, idx, top, k + 1)

\* mutant of AdvanceIndex: the cursor is not committed
AdvanceIndexStuck(idx, k, n) == idx

\* self._index = (self._index + 1) % len(self._rotation_order), k times
AdvanceIndex(idx, k, n) == (idx + k) % n

Returned(id, client, idx) ==
    [op |-> "get_client", id |-> id, client |-> client, index |-> idx,
     raised |-> None]

Raised(exc, idx) ==
    [op |-> "get_client", id |-> None, client |-> None, index |-> idx,
     raised |-> exc]

\* ClientPool.get_client on pool (d, order, rot, idx) at time t: the pair
\* returned (a client handle is named by its record's id), the cursor
\* left behind and the exception raised, if any
get_client(d, order, rot, idx, t) ==
    IF DOMAIN d = {} THEN Returned(None, None, idx)
    ELSE IF \E i \in 1..Len(rot) : rot[i] \notin DOMAIN d
    THEN Raised("KeyError", idx)
    ELSE
      LET avail == AvailableIds(d, rot, t) IN
      IF avail # <<>>
      THEN LET top == TopWeight(d, avail) IN
           IF Len(top) = 1 THEN Returned(top[1], top[1], idx)
           ELSE IF idx >= Len(rot) THEN Raised("IndexError", idx)
           ELSE LET k == ScanSteps(rot, idx, Range(top), 1) IN
                IF k <= Len(rot)
                THEN LET id == rot[((idx + k - 1) % Len(rot)) + 1]
                     IN  Returned(id, id, AdvanceIndex(idx, k, Len(rot)))
                ELSE Returned(top[1], top[1], AdvanceIndex(idx, Len(rot), Len(rot)))
      ELSE Returned(Soonest(d, order), None, idx)

\* mutant of GetClient: the acquire counts as a request of the record
GetClientCounting ==
    LET r == get_client(clients, client_order, rotation_order, index, now)
    IN  /\ ret' = r
        /\ index' = r.index
        /\ clients' = IF r.raised = None /\ r.client # None
                       THEN [clients EXCEPT ![r.id].request_count = @ + 1]
                       ELSE clients
        /\ UNCHANGED <<client_order, rotation_order, mode, now>>

\* a call of ClientPool.get_client
GetClient ==
    LET r == get_client(clients, client_order, rotation_order, index, now)
    IN  /\ ret' = r
        /\ index' = r.index
        /\ UNCHANGED <<clients, client_order, rotation_order, mode, now>>

\* ClientPool.get_earliest_available_time on pool (d, order) at time t:
\* none, or the smallest available_after (before its ISO formatting)
get_earliest_available_time(d, order, t) ==
    IF DOMAIN d = {} THEN [none |-> TRUE, at |-> 0]
    ELSE IF \E k \in DOMAIN d : is_available(d[k], t)
    THEN [none |-> TRUE, at |-> 0]
    ELSE [none |-> FALSE, at |-> d[Soonest(d, order)].available_after]

\* a call of ClientPool.get_earliest_available_time
GetEarliest ==
    /\ ret' = [op |-> "earliest",
               value |-> get_earliest_available_time(clients, client_order, now)]
    /\ UNCHANGED <<clients, client_order, rotation_order, index, mode, now>>

----------------------------------------------------------------------------
(* ClientPool: outcome reports                                             *)

\* ClientPool.mark_client_success
MarkClientSuccess(id) ==
    /\ clients' = IF id \in DOMAIN clients
                  THEN [clients EXCEPT ![id] = mark_success(clients[id])]
                  ELSE clients
    /\ ret' = NoRet
    /\ UNCHANGED <<client_order, rotation_order, index, mode, now>>

\* ClientPool.mark_client_failure
MarkClientFailure(id) ==
    /\ clients' = IF id \in DOMAIN clients
                  THEN [clients EXCEPT ![id] = mark_failure(clients[id], now)]
                  ELSE clients
    /\ ret' = NoRet
    /\ UNCHANGED <<client_order, rotation_order, index, mode, now>>

\* ClientPool.mark_client_pro_failure
MarkClientProFailure(id) ==
    /\ clients' = IF id \in DOMAIN clients
                  THEN [clients EXCEPT ![id] = mark_pro_failure(clients[id])]
                  ELSE clients
    /\ ret' = NoRet
    /\ UNCHANGED <<client_order, rotation_order, index, mode, now>>

\* time.time() moves on by d seconds between two pool calls
Tick(d) ==
    /\ now' = now + d
    /\ ret' = NoRet
    /\ UNCHANGED <<clients, client_order, rotation_order, index, mode>>

----------------------------------------------------------------------------
(* The pool under its callers: admin mutations, selections, outcome        *)
(* reports and the clock, in any order.                                    *)

TickUnit == INITIAL_BACKOFF

RECURSIVE Reports(_, _)
\* the outcome reports the counters of the records of the pool show
Reports(d, order) ==
    IF order = <<>> THEN 0
    ELSE d[Head(order)].fail_count + d[Head(order)].pro_fail_count
         + d[Head(order)].request_count + Reports(d, Tail(order))

\* no request worker runs and no observer records
Idle ==
    /\ pc = <<>>
    /\ req = <<>>
    /\ reported = <<>>
    /\ got = <<>>
    /\ rounds = <<>>
    /\ fair = <<>>
    /\ streak = <<>>
    /\ call = <<>>
    /\ probe = <<>>
    /\ sent = <<>>
    /\ NoHeartbeat

Init ==
    /\ \E tokens \in Configs : InitPool(tokens)
    /\ Idle

PoolAdmin ==
    \E id \in Ids :
        \/ AddClient(id)
        \/ RemoveClient(id)
        \/ EnableClient(id)
        \/ DisableClient(id)
        \/ ResetClient(id)

PoolReport ==
    \E id \in Ids :
        /\ Reports(clients, client_order) < PoolMaxReports
        /\ \/ MarkClientSuccess(id)
           \/ MarkClientFailure(id)
           \/ MarkClientProFailure(id)

PoolTick ==
    /\ now < PoolMaxTicks * TickUnit
    /\ Tick(TickUnit)

Next ==
    /\ \/ PoolAdmin
       \/ GetClient
       \/ GetEarliest
       \/ PoolReport
       \/ PoolTick
    /\ UNCHANGED <<reqVars, obsVars, probeVars,
                 hbVars, lockVars>>

Spec == Init /\ [][Next]_vars

----------------------------------------------------------------------------
(* One record under its outcome reports and reset, with the counters run   *)
(* to where the backoff and the weight saturate.                           *)

Rec == "A"

\* observer of the reports on Rec: the last one (flip changes at each), the
\* generic and the capability failures since its last success or reset,
\* its weight right after that success or reset, and the failures the
\* last success cleared
StreakInit ==
    [last |-> "none", flip |-> FALSE, fails |-> 0, pros |-> 0,
     w0 |-> DEFAULT_WEIGHT, cleared |-> 0]

InitRecord ==
    /\ InitPool(<<Rec>>)
    /\ pc = <<>>
    /\ req = <<>>
    /\ reported = <<>>
    /\ got = <<>>
    /\ rounds = <<>>
    /\ fair = <<>>
    /\ streak = StreakInit
    /\ call = <<>>
    /\ probe = <<>>
    /\ sent = <<>>
    /\ NoHeartbeat

RecSuccess ==
    /\ clients[Rec].request_count < RecMaxReq
    /\ MarkClientSuccess(Rec)
    /\ streak' = [last |-> "success", flip |-> ~streak.flip, fails |-> 0,
                  pros |-> 0, w0 |-> clients'[Rec].weight,
                  cleared |-> streak.fails]

RecFailure ==
    /\ clients[Rec].fail_count < RecMaxFail
    /\ MarkClientFailure(Rec)
    /\ streak' = [streak EXCEPT !.last = "failure", !.flip = ~streak.flip,
                                !.fails = streak.fails + 1]

RecProFailure ==
    /\ clients[Rec].pro_fail_count < RecMaxPro
    /\ MarkClientProFailure(Rec)
    /\ streak' = [streak EXCEPT !.last = "pro_failure", !.flip = ~streak.flip,
                                !.pros = streak.pros + 1]

RecReset ==
    /\ ResetClient(Rec)
    /\ streak' = [last |-> "reset", flip |-> ~streak.flip, fails |-> 0,
                  pros |-> 0, w0 |-> clients'[Rec].weight, cleared |-> 0]

RecTick ==
    /\ now < RecMaxTicks * TickUnit
    /\ Tick(TickUnit)
    /\ UNCHANGED streak

NextRecord ==
    /\ \/ RecSuccess
       \/ RecFailure
       \/ RecProFailure
       \/ RecReset
       \/ RecTick
    /\ UNCHANGED <<reqVars, got, rounds, fair, call, probeVars,
                 hbVars, lockVars>>

SpecRecord == InitRecord /\ [][NextRecord]_vars

----------------------------------------------------------------------------
(* Selection rounds: the pool of the config [A, B, C] under get_client,    *)
(* success reports and capability failures, in any order.                  *)

\* the records available at time t
Avail(d, t) == {k \in DOMAIN d : d[k].enabled /\ t >= d[k].available_after}

\* the top tier: the available records of the largest weight
Tier(d, t) ==
    {k \in Avail(d, t) : \A j \in Avail(d, t) : d[j].weight <= d[k].weight}

RECURSIVE ProFails(_, _)
\* the capability failures the counters of the records show
ProFails(d, order) ==
    IF order = <<>> THEN 0
    ELSE d[Head(order)].pro_fail_count + ProFails(d, Tail(order))

\* observer got: the last selection b, made from cursor `from` over tier
\* top, and the selection a before it if the tier has been top ever since
GotInit == [a |-> None, b |-> None, top |-> {}, from |-> 0]

\* observer rounds: the ids acquired in the acquire+success rounds run
\* since the pool was [A(100), B(100), C(50)] with its cursor at 0
RoundsInit == [on |-> FALSE, ids |-> <<>>, pending |-> None]

ScenarioPool ==
    /\ rotation_order = <<"A", "B", "C">>
    /\ index = 0
    /\ clients["A"].weight = 100
    /\ clients["B"].weight = 100
    /\ clients["C"].weight = 50
    /\ Avail(clients, now) = {"A", "B", "C"}

\* the ids the rounds of the scenario return
Pattern == <<"A", "B", "A", "B", "A", "B", "A", "B">>

InitRounds ==
    /\ InitPool(<<"A", "B", "C">>)
    /\ pc = <<>>
    /\ req = <<>>
    /\ reported = <<>>
    /\ got = GotInit
    /\ rounds = RoundsInit
    /\ fair = <<>>
    /\ streak = <<>>
    /\ call = <<>>
    /\ probe = <<>>
    /\ sent = <<>>
    /\ NoHeartbeat

\* a report leaves got alone unless it changes the top tier
GotAfterReport ==
    got' = IF Tier(clients', now') = got.top THEN got ELSE GotInit

RoundsGet ==
    /\ GetClient
    /\ got' = [a |-> IF got.top = Tier(clients, now) THEN got.b ELSE None,
               b |-> ret'.id,
               top |-> Tier(clients, now),
               from |-> index]
    /\ rounds' =
         IF rounds.on /\ rounds.pending = None /\ Len(rounds.ids) < Len(Pattern)
         THEN [rounds EXCEPT !.ids = Append(rounds.ids, ret'.id),
                             !.pending = ret'.id]
         ELSE IF ScenarioPool
         THEN [on |-> TRUE, ids |-> <<ret'.id>>, pending |-> ret'.id]
         ELSE RoundsInit

RoundsSuccess ==
    \E id \in Ids :
        /\ clients[id].request_count < RoundsMaxReq
        /\ MarkClientSuccess(id)
        /\ GotAfterReport
        /\ rounds' = IF rounds.on /\ rounds.pending = id
                     THEN [rounds EXCEPT !.pending = None]
                     ELSE RoundsInit

RoundsProFailure ==
    \E id \in Ids :
        /\ ProFails(clients, client_order) < RoundsMaxPro
        /\ id # "C" => clients[id].pro_fail_count < RoundsMaxProAB
        /\ MarkClientProFailure(id)
        /\ GotAfterReport
        /\ rounds' = RoundsInit

NextRounds ==
    /\ \/ RoundsGet
       \/ RoundsSuccess
       \/ RoundsProFailure
    /\ UNCHANGED <<reqVars, fair, streak, call, probeVars,
                 hbVars, lockVars>>

SpecRounds == InitRounds /\ [][NextRounds]_vars

----------------------------------------------------------------------------
(* Fairness windows: the same pool, with the selections of consecutive     *)
(* acquire-then-success rounds counted per record.                         *)

\* observer fair: the top tier T (of weight w) the window of rounds began
\* with, the rounds n begun since, the selections cnt of each record in
\* them, and the record whose success report is pending
FairInit ==
    [T |-> {}, w |-> 0, n |-> 0, cnt |-> [k \in Ids |-> 0], pending |-> None]

InitFair ==
    /\ InitPool(<<"A", "B", "C">>)
    /\ pc = <<>>
    /\ req = <<>>
    /\ reported = <<>>
    /\ got = <<>>
    /\ rounds = <<>>
    /\ fair = FairInit
    /\ streak = <<>>
    /\ call = <<>>
    /\ probe = <<>>
    /\ sent = <<>>
    /\ NoHeartbeat

FairGet ==
    /\ GetClient
    /\ fair' =
         IF fair.T # {} /\ fair.pending = None
         THEN [fair EXCEPT !.n = fair.n + 1,
                           !.cnt[ret'.id] = fair.cnt[ret'.id] + 1,
                           !.pending = ret'.id]
         ELSE IF Cardinality(Tier(clients, now)) >= 2
         THEN [T |-> Tier(clients, now),
               w |-> clients[ret'.id].weight,
               n |-> 1,
               cnt |-> [k \in Ids |-> IF k = ret'.id THEN 1 ELSE 0],
               pending |-> ret'.id]
         ELSE FairInit

FairSuccess ==
    \E id \in Ids :
        /\ clients[id].request_count < FairMaxReq
        /\ MarkClientSuccess(id)
        /\ fair' = IF fair.T # {} /\ fair.pending = id
                   THEN [fair EXCEPT !.pending = None]
                   ELSE FairInit

FairProFailure ==
    \E id \in Ids :
        /\ ProFails(clients, client_order) < FairMaxPro
        /\ MarkClientProFailure(id)
        /\ fair' = FairInit

NextFair ==
    /\ \/ FairGet
       \/ FairSuccess
       \/ FairProFailure
    /\ UNCHANGED <<reqVars, got, rounds, streak, call, probeVars,
                 hbVars, lockVars>>

SpecFair == InitFair /\ [][NextFair]_vars

----------------------------------------------------------------------------
(* run_query: request workers over the pool of the config [A, B].  Only    *)
(* the pool calls are atomic; validation, the upstream search and the      *)
(* extraction of the result run between them, unlocked.                    *)

Workers == {1, 2}

\* the search modes of a request
Modes == {"auto", "pro"}

\* what client.search returns: a reply with an answer, a reply without,
\* or a reply extract_clean_result cannot walk (None, or a SEARCH_RESULTS
\* step whose content is not a dict)
Responses == {"answer", "no_answer", "unwalkable"}

\* an exception by its class and by what run_query looks for in str(exc):
\* "pro", and any of "quota", "limit", "remaining"
Exc(cls, pro, quota) == [cls |-> cls, pro |-> pro, quota |-> quota]

\* the exceptions of the local validation: ValidationError of
\* sanitize_query, the language check, validate_search_params,
\* validate_file_data and validate_query_limits, OSError of normalize_files
ValidationExcs ==
    {Exc("ValidationError", p, FALSE) : p \in BOOLEAN}
        \cup {Exc("OSError", FALSE, FALSE)}

\* the exceptions of client.search
SearchExcs ==
    {Exc("Exception", p, q) : p \in BOOLEAN, q \in BOOLEAN}
        \cup {Exc("ValidationError", p, FALSE) : p \in BOOLEAN}

\* extract_clean_result raises on a reply it cannot walk
ExtractRaises(response) == response = "unwalkable"

\* the except clauses of run_query: the outcome reported for exception e
HandlerOutcome(m, e) ==
    IF e.cls = "ValidationError"
    THEN IF m = "pro" /\ e.pro THEN "pro_failure" ELSE "failure"
    ELSE IF m = "pro" /\ (e.pro \/ e.quota) THEN "pro_failure" ELSE "failure"

NoExc == Exc("none", FALSE, FALSE)

ReqInit ==
    [id |-> None, client |-> None, mode |-> "auto", issued |-> FALSE,
     response |-> None, exc |-> NoExc, served |-> 0]

InitQuery ==
    /\ InitPool(<<"A", "B">>)
    /\ pc = [w \in Workers |-> "start"]
    /\ req = [w \in Workers |-> ReqInit]
    /\ reported = [w \in Workers |-> <<>>]
    /\ got = <<>>
    /\ rounds = <<>>
    /\ fair = <<>>
    /\ streak = <<>>
    /\ call = <<>>
    /\ probe = <<>>
    /\ sent = <<>>
    /\ NoHeartbeat

\* the requests the workers have taken
Served == req[1].served + req[2].served

\* pool.get_client() of run_query, called for the worker's next request
QAcquire(w) ==
    /\ pc[w] \in {"start", "done"}
    /\ Served < QueryMaxReq
    /\ GetClient
    /\ \E m \in Modes :
           req' = [req EXCEPT ![w] = [ReqInit EXCEPT !.id = ret'.id,
                                                     !.client = ret'.client,
                                                     !.mode = m,
                                                     !.served = req[w].served + 1]]
    /\ reported' = [reported EXCEPT ![w] = <<>>]
    /\ pc' = [pc EXCEPT ![w] = IF ret'.raised # None THEN "done"
                               ELSE IF ret'.client = None THEN "exhausted"
                               ELSE "acquired"]

\* client is None: pool.get_earliest_available_time(), then the
\* NoAvailableClients answer
QExhausted(w) ==
    /\ pc[w] = "exhausted"
    /\ GetEarliest
    /\ pc' = [pc EXCEPT ![w] = "done"]
    /\ UNCHANGED <<req, reported>>

\* the local validation of the try block, up to validate_query_limits
QValidate(w) ==
    /\ pc[w] = "acquired"
    /\ \/ /\ pc' = [pc EXCEPT ![w] = "validated"]
          /\ UNCHANGED req
       \/ \E e \in ValidationExcs :
              /\ pc' = [pc EXCEPT ![w] = "handler"]
              /\ req' = [req EXCEPT ![w].exc = e]
    /\ UNCHANGED <<poolVars, reported>>

\* client.search(...): the upstream call
QSearch(w) ==
    /\ pc[w] = "validated"
    /\ \/ \E r \in Responses :
              /\ pc' = [pc EXCEPT ![w] = "searched"]
              /\ req' = [req EXCEPT ![w].issued = TRUE, ![w].response = r]
       \/ \E e \in SearchExcs :
              /\ pc' = [pc EXCEPT ![w] = "handler"]
              /\ req' = [req EXCEPT ![w].issued = TRUE, ![w].exc = e]
    /\ UNCHANGED <<poolVars, reported>>

\* pool.mark_client_success(client_id)
QMarkSuccess(w) ==
    /\ pc[w] = "searched"
    /\ MarkClientSuccess(req[w].id)
    /\ reported' = [reported EXCEPT ![w] = Append(reported[w], "success")]
    /\ pc' = [pc EXCEPT ![w] = "marked"]
    /\ UNCHANGED req

\* extract_clean_result(response), then the ok answer
QExtract(w) ==
    /\ pc[w] = "marked"
    /\ IF ExtractRaises(req[w].response)
       THEN /\ pc' = [pc EXCEPT ![w] = "handler"]
            /\ req' = [req EXCEPT ![w].exc = Exc("TypeError", FALSE, FALSE)]
       ELSE /\ pc' = [pc EXCEPT ![w] = "done"]
            /\ req' = [req EXCEPT ![w].response = None, ![w].mode = "auto"]
    /\ UNCHANGED <<poolVars, reported>>

\* the except clauses: report the failure, then the error answer
QHandle(w) ==
    /\ pc[w] = "handler"
    /\ LET o == HandlerOutcome(req[w].mode, req[w].exc)
       IN  /\ IF o = "pro_failure"
              THEN MarkClientProFailure(req[w].id)
              ELSE MarkClientFailure(req[w].id)
           /\ reported' = [reported EXCEPT ![w] = Append(reported[w], o)]
    /\ pc' = [pc EXCEPT ![w] = "done"]
    /\ req' = [req EXCEPT ![w].response = None, ![w].exc = NoExc,
                          ![w].mode = "auto"]

QueryTick ==
    /\ now < QueryMaxTicks * TickUnit
    /\ Tick(TickUnit)
    /\ UNCHANGED reqVars

NextQuery ==
    /\ \/ \E w \in Workers :
              \/ QAcquire(w)
              \/ QExhausted(w)
              \/ QValidate(w)
              \/ QSearch(w)
              \/ QMarkSuccess(w)
              \/ QExtract(w)
              \/ QHandle(w)
       \/ QueryTick
    /\ UNCHANGED <<obsVars, probeVars,
                 hbVars, lockVars>>

SpecQuery == InitQuery /\ [][NextQuery]_vars

----------------------------------------------------------------------------
(* test_client: liveness probes.  A probe looks its record up and reads    *)
(* its state without awaiting, then awaits the login check                 *)
(* (client.get_user_info) and the activity query (client.search) in worker *)
(* threads; each await is a point where other coroutines run.              *)

\* what client.get_user_info returns: a session with a user, one whose user
\* is empty, one without the key, or something that is not a dict
UserInfos == {"user", "empty_user", "no_user", "not_dict"}

\* isinstance(user_info, dict) and bool(user_info.get("user"))
LoggedIn(user_info) == user_info = "user"

\* what client.search returns to the probe: a reply with an answer, one
\* without, a falsy reply, or a truthy reply that is not a container
Replies == {"answer", "no_answer", "empty", "not_dict"}

\* bool(response) and ("answer" in response)
ReplyOk(response) == response = "answer"

\* "answer" in response raises on a truthy reply that is no container
ReplyRaises(response) == response = "not_dict"

\* mutant of ProbeState: the reply is not looked at
ProbeStateNormal(ok) == "normal"

\* wrapper.state = "normal" if ok else "offline"
ProbeState(ok) == IF ok THEN "normal" ELSE "offline"

\* mutant of Notifies: every offline result is notified
NotifiesAlways(prev_state) == TRUE

\* if prev_state != "offline": await self._send_telegram_notification(...)
Notifies(prev_state) == prev_state # "offline"

\* the locals of a probe that is not running
ProbeInit ==
    [stage |-> "idle", id |-> None, prev_state |-> None, at |-> 0,
     user_info |-> None, response |-> None]

\* _initialize, priority 5: the pool of one record without cookies
InitAnonymous ==
    /\ clients = [k \in {"anonymous"} |-> NewWrapper(FALSE)]
    /\ client_order = <<"anonymous">>
    /\ rotation_order = <<"anonymous">>
    /\ index = 0
    /\ mode = "anonymous"
    /\ now = 0
    /\ ret = NoRet

\* the dict test_client returns
ProbeResult(id, status, state, reason) ==
    [op |-> "test_client", id |-> id, status |-> status, state |-> state,
     reason |-> reason]

\* mutant of SetState: a probe that finds the record offline disables it
SetStateDisabling(d, id, state, at) ==
    IF id \in DOMAIN d
    THEN [d EXCEPT ![id].state = state, ![id].last_heartbeat = <<at>>,
                   ![id].enabled = state # "offline"]
    ELSE d

\* wrapper.state = state; wrapper.last_heartbeat = now, on the wrapper the
\* probe looked up
SetState(d, id, state, at) ==
    IF id \in DOMAIN d
    THEN [d EXCEPT ![id].state = state, ![id].last_heartbeat = <<at>>]
    ELSE d

\* test_client up to its first await: the lookup, prev_state, now, and the
\* whole probe of a record without cookies
ProbeStart(p, id) ==
    /\ probe[p].stage \in {"idle", "returned", "raised"}
    /\ IF id \notin DOMAIN clients
       THEN /\ probe' = [probe EXCEPT ![p] = [ProbeInit EXCEPT !.id = id]]
            /\ ret' = ProbeResult(id, "error", None, "not_found")
            /\ UNCHANGED clients
       ELSE IF ~clients[id].own
       THEN /\ probe' = [probe EXCEPT ![p] =
                            [ProbeInit EXCEPT !.stage = "returned",
                                              !.id = id,
                                              !.prev_state = clients[id].state,
                                              !.at = now]]
            /\ clients' = SetState(clients, id, "anonymous", now)
            /\ ret' = ProbeResult(id, "ok", "anonymous", None)
       ELSE /\ probe' = [probe EXCEPT ![p] =
                            [ProbeInit EXCEPT !.stage = "login",
                                              !.id = id,
                                              !.prev_state = clients[id].state,
                                              !.at = now]]
            /\ UNCHANGED <<clients, ret>>
    /\ UNCHANGED <<client_order, rotation_order, index, mode, now, sent>>

\* the login check returns: not logged in ends the probe offline
ProbeLogin(p) ==
    /\ probe[p].stage = "login"
    /\ \E u \in UserInfos :
          IF LoggedIn(u)
          THEN /\ probe' = [probe EXCEPT ![p].stage = "search",
                                         ![p].user_info = u]
               /\ UNCHANGED <<clients, ret, sent>>
          ELSE /\ probe' = [probe EXCEPT ![p].stage = "returned",
                                         ![p].user_info = u]
               /\ clients' = SetState(clients, probe[p].id, "offline",
                                      probe[p].at)
               /\ sent' = IF Notifies(probe[p].prev_state)
                          THEN Append(sent, probe[p].id) ELSE sent
               /\ ret' = ProbeResult(probe[p].id, "error", "offline",
                                     "not_logged_in")
    /\ UNCHANGED <<client_order, rotation_order, index, mode, now>>

\* the login check raises: nothing in test_client catches it
ProbeLoginRaises(p) ==
    /\ probe[p].stage = "login"
    /\ probe' = [probe EXCEPT ![p].stage = "raised"]
    /\ ret' = [op |-> "test_client", id |-> probe[p].id, raised |-> "Exception"]
    /\ UNCHANGED <<clients, client_order, rotation_order, index, mode, now,
                   sent>>

\* the activity query returns
ProbeSearch(p) ==
    /\ probe[p].stage = "search"
    /\ \E r \in Replies :
          LET ok == ~ReplyRaises(r) /\ ReplyOk(r)
              state == IF ReplyRaises(r) THEN "offline" ELSE ProbeState(ok)
          IN  /\ probe' = [probe EXCEPT ![p].stage = "returned",
                                        ![p].response = r]
              /\ clients' = SetState(clients, probe[p].id, state, probe[p].at)
              /\ sent' = IF state = "offline" /\ Notifies(probe[p].prev_state)
                         THEN Append(sent, probe[p].id) ELSE sent
              /\ ret' = ProbeResult(probe[p].id,
                                    IF state = "normal" THEN "ok" ELSE "error",
                                    state,
                                    IF state = "normal" THEN None
                                    ELSE IF ReplyRaises(r) THEN "exception"
                                    ELSE "no_answer")
    /\ UNCHANGED <<client_order, rotation_order, index, mode, now>>

\* the activity query raises
ProbeSearchRaises(p) ==
    /\ probe[p].stage = "search"
    /\ probe' = [probe EXCEPT ![p].stage = "returned", ![p].response = "raised"]
    /\ clients' = SetState(clients, probe[p].id, "offline", probe[p].at)
    /\ sent' = IF Notifies(probe[p].prev_state)
               THEN Append(sent, probe[p].id) ELSE sent
    /\ ret' = ProbeResult(probe[p].id, "error", "offline", "exception")
    /\ UNCHANGED <<client_order, rotation_order, index, mode, now>>

----------------------------------------------------------------------------
(* Probes run one after another, on the pool of the config [A, B] or on    *)
(* the pool bootstrapped without credentials, to which an admin may add A. *)

Probers == {1}

ProbeTargets == Ids \cup {"anonymous"}

InitProbe ==
    /\ \/ InitPool(<<"A", "B">>)
       \/ InitAnonymous
    /\ pc = <<>>
    /\ req = <<>>
    /\ reported = <<>>
    /\ got = <<>>
    /\ rounds = <<>>
    /\ fair = <<>>
    /\ streak = <<>>
    /\ call = <<>>
    /\ probe = [p \in Probers |-> ProbeInit]
    /\ sent = <<>>
    /\ NoHeartbeat

ProbeStep ==
    \E p \in Probers :
        \/ \E id \in ProbeTargets : Len(sent) < ProbeMaxSent /\ ProbeStart(p, id)
        \/ ProbeLogin(p)
        \/ ProbeLoginRaises(p)
        \/ ProbeSearch(p)
        \/ ProbeSearchRaises(p)

ProbeAdd ==
    /\ AddClient("A")
    /\ UNCHANGED probeVars

ProbeTick ==
    /\ now < ProbeMaxTicks * TickUnit
    /\ Tick(TickUnit)
    /\ UNCHANGED probeVars

NextProbe ==
    /\ \/ ProbeStep
       \/ ProbeAdd
       \/ ProbeTick
    /\ UNCHANGED <<reqVars, obsVars,
                 hbVars, lockVars>>

SpecProbe == InitProbe /\ [][NextProbe]_vars

----------------------------------------------------------------------------
(* Admin calls: the pool of any config, token lists that name an id twice  *)
(* included, under add, remove, enable, disable and reset, with selections *)
(* and outcome reports in between.                                         *)

\* token lists in which an id occurs twice: _load_from_config takes them
DuplicateConfigs == {<<"A", "A">>, <<"A", "B", "A">>}

\* observer call: the admin call of the last step, with a bit that every
\* admin call flips
CallInit == [op |-> "none", id |-> None, flip |-> FALSE]

Called(op, id) == call' = [op |-> op, id |-> id, flip |-> ~call.flip]

InitAdmin ==
    /\ \E tokens \in Configs \cup DuplicateConfigs : InitPool(tokens)
    /\ pc = <<>>
    /\ req = <<>>
    /\ reported = <<>>
    /\ got = <<>>
    /\ rounds = <<>>
    /\ fair = <<>>
    /\ streak = <<>>
    /\ call = CallInit
    /\ probe = <<>>
    /\ sent = <<>>
    /\ NoHeartbeat

AdminAdd == \E id \in Ids : AddClient(id) /\ Called("add", id)

AdminRemove == \E id \in Ids : RemoveClient(id) /\ Called("remove", id)

AdminEnable == \E id \in Ids : EnableClient(id) /\ Called("enable", id)

AdminDisable == \E id \in Ids : DisableClient(id) /\ Called("disable", id)

AdminReset == \E id \in Ids : ResetClient(id) /\ Called("reset", id)

AdminGet ==
    /\ GetClient
    /\ call' = CallInit

AdminReport ==
    /\ \E id \in Ids :
          /\ Reports(clients, client_order) < AdminMaxReports
          /\ \/ MarkClientSuccess(id)
             \/ MarkClientFailure(id)
             \/ MarkClientProFailure(id)
    /\ call' = CallInit

NextAdmin ==
    /\ \/ AdminAdd
       \/ AdminRemove
       \/ AdminEnable
       \/ AdminDisable
       \/ AdminReset
       \/ AdminGet
       \/ AdminReport
    /\ UNCHANGED <<reqVars, got, rounds, fair, streak, probeVars,
                 hbVars, lockVars>>

SpecAdmin == InitAdmin /\ [][NextAdmin]_vars

----------------------------------------------------------------------------
(* reset_client among the calls that write the fields it must leave alone: *)
(* the pool of the config [A, B] under reset, enable, disable, selections, *)
(* outcome reports and probes.                                             *)

InitReset ==
    /\ InitPool(<<"A", "B">>)
    /\ pc = <<>>
    /\ req = <<>>
    /\ reported = <<>>
    /\ got = <<>>
    /\ rounds = <<>>
    /\ fair = <<>>
    /\ streak = <<>>
    /\ call = CallInit
    /\ probe = [p \in Probers |-> ProbeInit]
    /\ sent = <<>>
    /\ NoHeartbeat

ResetCall ==
    /\ \E id \in Ids : ResetClient(id) /\ Called("reset", id)
    /\ UNCHANGED probeVars

ResetToggle ==
    /\ \E id \in Ids : EnableClient(id) \/ DisableClient(id)
    /\ call' = CallInit
    /\ UNCHANGED probeVars

ResetGet ==
    /\ GetClient
    /\ call' = CallInit
    /\ UNCHANGED probeVars

ResetReport ==
    /\ \E id \in Ids :
          /\ Reports(clients, client_order) < ResetMaxReports
          /\ \/ MarkClientSuccess(id)
             \/ MarkClientFailure(id)
             \/ MarkClientProFailure(id)
    /\ call' = CallInit
    /\ UNCHANGED probeVars

ResetProbe ==
    /\ \E p \in Probers :
          \/ \E id \in DOMAIN clients :
                 Len(sent) < ResetMaxSent /\ ProbeStart(p, id)
          \/ ProbeLogin(p)
          \/ ProbeLoginRaises(p)
          \/ ProbeSearch(p)
          \/ ProbeSearchRaises(p)
    /\ call' = CallInit

NextReset ==
    /\ \/ ResetCall
       \/ ResetToggle
       \/ ResetGet
       \/ ResetReport
       \/ ResetProbe
    /\ UNCHANGED <<reqVars, got, rounds, fair, streak,
                 hbVars, lockVars>>

SpecReset == InitReset /\ [][NextReset]_vars

----------------------------------------------------------------------------
(* reset against successes: the records A and B of the config [A, B] take  *)
(* outcome reports; then A is reset and B is reported successful.          *)

\* observer call, here: whether A has been reset, whether A and B were
\* alike when it was, and the successes reported for B since
EquivInit == [op |-> "none", same |-> FALSE, n |-> 0]

InitEquiv ==
    /\ InitPool(<<"A", "B">>)
    /\ pc = <<>>
    /\ req = <<>>
    /\ reported = <<>>
    /\ got = <<>>
    /\ rounds = <<>>
    /\ fair = <<>>
    /\ streak = <<>>
    /\ call = EquivInit
    /\ probe = <<>>
    /\ sent = <<>>
    /\ NoHeartbeat

EquivReport ==
    /\ call.op = "none"
    /\ Reports(clients, client_order) < EquivMaxReports
    /\ \E id \in {"A", "B"} :
          \/ MarkClientSuccess(id)
          \/ MarkClientFailure(id)
          \/ MarkClientProFailure(id)
    /\ UNCHANGED call

EquivReset ==
    /\ call.op = "none"
    /\ ResetClient("A")
    /\ call' = [op |-> "reset", same |-> clients["A"] = clients["B"], n |-> 0]

EquivSuccess ==
    /\ call.op = "reset"
    /\ call.n < EquivMaxSucc
    /\ MarkClientSuccess("B")
    /\ call' = [call EXCEPT !.n = call.n + 1]

NextEquiv ==
    /\ \/ EquivReport
       \/ EquivReset
       \/ EquivSuccess
    /\ UNCHANGED <<reqVars, got, rounds, fair, streak, probeVars,
                 hbVars, lockVars>>

SpecEquiv == InitEquiv /\ [][NextEquiv]_vars

----------------------------------------------------------------------------
(* test_all_clients: one tick of probes.  Task i of the tick is            *)
(* test_with_limit(client_ids[i]); it waits for one of the slots of the    *)
(* semaphore, runs test_client in it, then sleeps in it.                   *)

\* asyncio.Semaphore(5)
MaxConcurrency == 5

\* ids of the tokens of a large config file
TickNames == <<"T1", "T2", "T3", "T4", "T5", "T6", "T7", "T8">>

\* a task of the tick: its slot of the semaphore, whether its test_client
\* call has ended and whether its asyncio.sleep(0.5) has
TaskInit == [slot |-> "waiting", probed |-> FALSE, delayed |-> FALSE]

\* no test_all_clients call is running
TickInit == [stage |-> "idle", ids |-> <<>>, tasks |-> <<>>]

\* tasks inside `async with semaphore`
Holding(t) == {i \in DOMAIN t.tasks : t.tasks[i].slot = "held"}

\* client_ids = list(self.clients.keys()), one task per id; in stage
\* "called" the call has begun and has not taken the snapshot yet
TickStart ==
    /\ tick.stage \in {"idle", "returned", "called"}
    /\ tick' = IF client_order = <<>>
               THEN [TickInit EXCEPT !.stage = "returned"]
               ELSE [stage |-> "running", ids |-> client_order,
                     tasks |-> [i \in DOMAIN client_order |-> TaskInit]]
    /\ probe' = [i \in DOMAIN client_order |-> ProbeInit]
    /\ UNCHANGED <<poolVars, sent>>

\* the slot of task i once its test_client call stands at `at`: the call
\* that returned goes on to the sleep, the one that raised leaves the
\* `async with` block
AfterProbe(t, i, at) ==
    IF at \in {"login", "search"} THEN t
    ELSE IF at = "raised"
    THEN [t EXCEPT !.tasks[i].slot = "released", !.tasks[i].probed = TRUE]
    ELSE [t EXCEPT !.tasks[i].probed = TRUE]

\* task i enters `async with semaphore` and calls test_client
TaskAcquire(i) ==
    /\ tick.stage = "running"
    /\ tick.tasks[i].slot = "waiting"
    /\ Cardinality(Holding(tick)) < MaxConcurrency
    /\ ProbeStart(i, tick.ids[i])
    /\ tick' = AfterProbe([tick EXCEPT !.tasks[i].slot = "held"], i,
                          IF probe'[i].stage = "idle" THEN "returned"
                          ELSE probe'[i].stage)

\* the login check or the activity query of task i ends
TaskProbe(i) ==
    /\ tick.stage = "running"
    /\ tick.tasks[i].slot = "held"
    /\ ~tick.tasks[i].probed
    /\ \/ ProbeLogin(i)
       \/ ProbeLoginRaises(i)
       \/ ProbeSearch(i)
       \/ ProbeSearchRaises(i)
    /\ tick' = AfterProbe(tick, i, probe'[i].stage)

\* await asyncio.sleep(0.5) of task i ends, and with it the block
TaskDelay(i) ==
    /\ tick.stage = "running"
    /\ tick.tasks[i].slot = "held"
    /\ tick.tasks[i].probed
    /\ tick' = [tick EXCEPT !.tasks[i].slot = "released",
                            !.tasks[i].delayed = TRUE]
    /\ UNCHANGED <<poolVars, probeVars>>

\* asyncio.gather returns once every task has ended
TickReturn ==
    /\ tick.stage = "running"
    /\ \A i \in DOMAIN tick.tasks : tick.tasks[i].slot = "released"
    /\ tick' = [tick EXCEPT !.stage = "returned"]
    /\ ret' = [op |-> "test_all_clients", status |-> "ok",
               results |-> {tick.ids[i] : i \in {j \in DOMAIN tick.tasks :
                                                   tick.tasks[j].delayed}}]
    /\ UNCHANGED <<clients, client_order, rotation_order, index, mode, now,
                   probeVars>>

----------------------------------------------------------------------------
(* One tick over a pool of more records than the semaphore has slots; the  *)
(* sessions are logged in and the activity queries answer, or the login    *)
(* check raises.                                                           *)

InitTick ==
    /\ InitPool(SubSeq(TickNames, 1, TickPoolSize))
    /\ pc = <<>>
    /\ req = <<>>
    /\ reported = <<>>
    /\ got = <<>>
    /\ rounds = <<>>
    /\ fair = <<>>
    /\ streak = <<>>
    /\ call = <<>>
    /\ probe = <<>>
    /\ sent = <<>>
    /\ heartbeat_config = <<>>
    /\ file = <<>>
    /\ tick = TickInit
    /\ task = <<>>
    /\ lock = <<>>
    /\ thr = <<>>

NextTick ==
    /\ \/ tick.stage = "idle" /\ TickStart
       \/ \E i \in DOMAIN tick.tasks :
              \/ TaskAcquire(i)
              \/ TaskProbe(i) /\ sent' = sent
              \/ TaskDelay(i)
       \/ TickReturn
    /\ UNCHANGED <<reqVars, obsVars, heartbeat_config, file, task, lockVars>>

SpecTick == InitTick /\ [][NextTick]_vars

----------------------------------------------------------------------------
(* Creation of records: the constructor of the pool as a step, from a      *)
(* config file, from the credential of the environment or from nothing,    *)
(* followed by admin adds and removes, outcome reports and probes of       *)
(* records without cookies.                                                *)

\* ClientPool.__init__ before self._initialize(config_path)
InitCreate ==
    /\ clients = <<>>
    /\ client_order = <<>>
    /\ rotation_order = <<>>
    /\ index = 0
    /\ mode = "anonymous"
    /\ now = 0
    /\ ret = NoRet
    /\ pc = <<>>
    /\ req = <<>>
    /\ reported = <<>>
    /\ got = <<>>
    /\ rounds = <<>>
    /\ fair = <<>>
    /\ streak = <<>>
    /\ call = CallInit
    /\ probe = [p \in Probers |-> ProbeInit]
    /\ sent = <<>>
    /\ NoHeartbeat

\* _initialize: the records of a config file (priorities 1 to 3), the one
\* record "default" of PPLX_CSRF_TOKEN and PPLX_SESSION_TOKEN (priority 4),
\* or the one record "anonymous" without cookies (priority 5)
Bootstrap ==
    /\ call.op = "none"
    /\ \/ \E tokens \in Configs \cup DuplicateConfigs :
              LET l == LoadTokens(tokens, <<>>, <<>>, <<>>)
              IN  /\ clients' = l.map
                  /\ client_order' = l.order
                  /\ rotation_order' = l.rot
                  /\ mode' = "pool"
       \/ /\ clients' = [k \in {"default"} |-> NewWrapper(TRUE)]
          /\ client_order' = <<"default">>
          /\ rotation_order' = <<"default">>
          /\ mode' = "single"
       \/ /\ clients' = [k \in {"anonymous"} |-> NewWrapper(FALSE)]
          /\ client_order' = <<"anonymous">>
          /\ rotation_order' = <<"anonymous">>
          /\ mode' = "anonymous"
    /\ Called("init", None)
    /\ UNCHANGED <<index, now, ret, probeVars>>

CreateAdmin ==
    /\ call.op # "none"
    /\ \/ \E id \in Ids : AddClient(id)
       \/ \E id \in DOMAIN clients : RemoveClient(id)
    /\ UNCHANGED <<call, probeVars>>

CreateReport ==
    /\ call.op # "none"
    /\ Reports(clients, client_order) < CreateMaxReports
    /\ \E id \in DOMAIN clients :
           \/ MarkClientSuccess(id)
           \/ MarkClientFailure(id)
           \/ MarkClientProFailure(id)
    /\ UNCHANGED <<call, probeVars>>

\* test_client on a record without cookies
CreateProbe ==
    /\ call.op # "none"
    /\ \E id \in DOMAIN clients : ~clients[id].own /\ ProbeStart(1, id)
    /\ UNCHANGED call

NextCreate ==
    /\ \/ Bootstrap
       \/ CreateAdmin
       \/ CreateReport
       \/ CreateProbe
    /\ UNCHANGED <<reqVars, got, rounds, fair, streak, hbVars, lockVars>>

SpecCreate == InitCreate /\ [][NextCreate]_vars

----------------------------------------------------------------------------
(* The heartbeat configuration and the config file.  A Python value is     *)
(* named by its repr ("None", "True", "6", "'q'"), a JSON value by its     *)
(* text in the file ("null", "true", "6", "\"q\"").                        *)

Keys == {"enable", "question", "interval", "tg_bot_token", "tg_chat_id"}

\* self._heartbeat_config of ClientPool.__init__; 'q0' stands for the
\* default question, which is not ASCII
DefaultHeartbeat ==
    [enable |-> "False", question |-> "'q0'", interval |-> "6",
     tg_bot_token |-> "None", tg_chat_id |-> "None"]

\* the values an admin supplies for a key
Supplied(k) ==
    CASE k = "enable" -> {"True", "None"}
      [] k = "question" -> {"'q'"}
      [] k = "interval" -> {"12"}
      [] k = "tg_bot_token" -> {"None", "'t'"}
      [] k = "tg_chat_id" -> {"None"}

\* json.dump(..., ensure_ascii=False) of one value
Dump(v) ==
    CASE v = "None" -> "null"
      [] v = "True" -> "true"
      [] v = "False" -> "false"
      [] v = "'q0'" -> "\"q0\""
      [] v = "'q'" -> "\"q\""
      [] v = "'t'" -> "\"t\""
      [] v = "'c'" -> "\"c\""
      [] OTHER -> v

\* json.load of one value
Load(j) ==
    CASE j = "null" -> "None"
      [] j = "true" -> "True"
      [] j = "false" -> "False"
      [] j = "\"q0\"" -> "'q0'"
      [] j = "\"q\"" -> "'q'"
      [] j = "\"t\"" -> "'t'"
      [] j = "\"c\"" -> "'c'"
      [] OTHER -> j

\* the value of key "heart_beat" in the file: absent, or a JSON value that
\* is an object (obj) or something else
NoHeartBeat == [present |-> FALSE, dict |-> FALSE, obj |-> [k \in {} |-> "null"]]
HeartBeatObject(obj) == [present |-> TRUE, dict |-> TRUE, obj |-> obj]
HeartBeatOther == [present |-> TRUE, dict |-> FALSE, obj |-> [k \in {} |-> "null"]]

\* heart_beat.get(k, default) of _load_from_config
GetDefault(k) ==
    CASE k = "enable" -> "False"
      [] k = "question" -> "'q0'"
      [] k = "interval" -> "6"
      [] OTHER -> "None"

\* mutant of LoadHeartBeat: a null in the file reads as the default
LoadHeartBeatOrDefault(hb) ==
    IF hb.present /\ hb.dict /\ DOMAIN hb.obj # {}
    THEN [k \in Keys |-> IF k \in DOMAIN hb.obj /\ hb.obj[k] # "null"
                         THEN Load(hb.obj[k]) ELSE GetDefault(k)]
    ELSE DefaultHeartbeat

\* _load_from_config: the heartbeat configuration a pool takes from the
\* file; `if heart_beat and isinstance(heart_beat, dict)` skips an absent
\* value, an empty object and a value that is no object
LoadHeartBeat(hb) ==
    IF hb.present /\ hb.dict /\ DOMAIN hb.obj # {}
    THEN [k \in Keys |-> IF k \in DOMAIN hb.obj
                         THEN Load(hb.obj[k]) ELSE GetDefault(k)]
    ELSE DefaultHeartbeat

\* config["heart_beat"] = {...} of update_heartbeat_config, as written
DumpHeartBeat(config) == HeartBeatObject([k \in Keys |-> Dump(config[k])])

\* mutant of ApplyUpdate: the supplied values are dropped
ApplyNothing(config, new_config) == config

\* for key in [...]: if key in new_config: self._heartbeat_config[key] = ...
ApplyUpdate(config, new_config) ==
    [k \in Keys |-> IF k \in DOMAIN new_config THEN new_config[k]
                    ELSE config[k]]

\* no config file: self._config_path is None
NoFile ==
    [exists |-> FALSE, heart_beat |-> NoHeartBeat, tokens |-> <<>>]

\* observer call: the update of the last step and what it was given
CalledWith(op, new_config) ==
    call' = [op |-> op, new_config |-> new_config]

\* ClientPool.update_heartbeat_config: the in-memory update, then the
\* rewrite of the file if there is one.  Reading or writing the file may
\* raise; a write that raised may leave a file that is no JSON, which
\* every later read raises on.
UpdateHeartbeatConfig(new_config) ==
    LET config == ApplyUpdate(heartbeat_config, new_config)
        error == [op |-> "update_heartbeat_config", status |-> "error"]
    IN  /\ heartbeat_config' = config
        /\ IF file.exists
           THEN \/ /\ file' = file
                   /\ ret' = error
                \/ /\ file' = [file EXCEPT !.heart_beat = DumpHeartBeat(config)]
                   /\ ret' = [op |-> "update_heartbeat_config",
                              status |-> "ok", config |-> config]
           ELSE /\ file' = file
                /\ ret' = [op |-> "update_heartbeat_config",
                           status |-> "ok", config |-> config]
        /\ UNCHANGED <<clients, client_order, rotation_order, index, mode,
                       now>>

----------------------------------------------------------------------------
(* Heartbeat-config edits on a pool bootstrapped from a config file, with  *)
(* or without a heart_beat section, or bootstrapped without a file; admin  *)
(* adds and removes in between.                                            *)

\* the heart_beat sections of the config files
HeartBeats ==
    {NoHeartBeat, HeartBeatOther,
     HeartBeatObject([k \in {} |-> "null"]),
     HeartBeatObject([k \in {"enable"} |-> "true"]),
     HeartBeatObject([k \in {"enable", "tg_chat_id"} |->
                         IF k = "enable" THEN "null" ELSE "\"c\""]),
     DumpHeartBeat(DefaultHeartbeat)}

\* a key the admin's update leaves out
Unset == "unset"

\* the update that carries the values of f that are set
Update(f) == [k \in {x \in Keys : f[x] # Unset} |-> f[k]]

InitConfig ==
    /\ \/ \E hb \in HeartBeats :
              /\ InitPool(<<"A", "B">>)
              /\ file = [exists |-> TRUE, heart_beat |-> hb,
                         tokens |-> <<"A", "B">>]
              /\ heartbeat_config = LoadHeartBeat(hb)
       \/ /\ InitAnonymous
          /\ file = NoFile
          /\ heartbeat_config = DefaultHeartbeat
    /\ pc = <<>>
    /\ req = <<>>
    /\ reported = <<>>
    /\ got = <<>>
    /\ rounds = <<>>
    /\ fair = <<>>
    /\ streak = <<>>
    /\ call = [op |-> "none", new_config |-> [k \in {} |-> "None"]]
    /\ probe = <<>>
    /\ sent = <<>>
    /\ tick = <<>>
    /\ task = <<>>
    /\ lock = <<>>
    /\ thr = <<>>

\* an admin's update: values for any set of keys
ConfigUpdate ==
    \E e \in Supplied("enable") \cup {Unset},
       q \in Supplied("question") \cup {Unset},
       i \in Supplied("interval") \cup {Unset},
       b \in Supplied("tg_bot_token") \cup {Unset},
       c \in Supplied("tg_chat_id") \cup {Unset} :
        LET new_config == Update([enable |-> e, question |-> q,
                                  interval |-> i, tg_bot_token |-> b,
                                  tg_chat_id |-> c])
        IN  /\ UpdateHeartbeatConfig(new_config)
            /\ CalledWith("update_heartbeat_config", new_config)

ConfigAdmin ==
    /\ AddClient("C")
    /\ UNCHANGED <<heartbeat_config, file, call>>

NextConfig ==
    /\ \/ ConfigUpdate
       \/ ConfigAdmin
    /\ UNCHANGED <<reqVars, got, rounds, fair, streak, probeVars, tick, task,
                   lockVars>>

SpecConfig == InitConfig /\ [][NextConfig]_vars

----------------------------------------------------------------------------
(* ClientPool._lock.  A pool call of a thread is the sequence of its       *)
(* steps: taking the lock (`with self._lock:`), an access to the state of  *)
(* the pool, a call that waits for the upstream service or the file        *)
(* system, and giving the lock back at the end of the `with` block.        *)

Threads == {1, 2}

\* the lock is free
Free == 0

St(kind, what) == [kind |-> kind, what |-> what]

Acquire == St("acquire", "lock")
Release == St("release", "lock")

\* the steps of each pool call, in program order
Program(op) ==
    CASE op = "get_client" ->
           <<Acquire, St("access", "select"), Release>>
      [] op = "mark_client_failure" ->
           <<Acquire, St("access", "mark_failure"), Release>>
      [] op = "add_client" ->
           <<Acquire, St("access", "add"), Release>>
      [] op = "get_client_user_info" ->
           <<Acquire, St("access", "lookup"), St("io", "get_user_info"),
             Release>>
      [] op = "get_all_clients_user_info" ->
           <<Acquire, St("access", "items"), St("io", "get_user_info"),
             Release>>
      [] op = "update_heartbeat_config" ->
           <<St("access", "heartbeat_config"), St("io", "file")>>
      [] op = "test_all_clients" ->
           <<St("access", "snapshot")>>
      [] op = "test_client_unowned" ->
           <<Acquire, St("access", "lookup"), Release,
             St("access", "prev_state"),
             Acquire, St("access", "state"), Release>>
      [] op = "test_client" ->
           <<Acquire, St("access", "lookup"), Release,
             St("access", "prev_state"),
             St("io", "get_user_info"), St("io", "search"),
             Acquire, St("access", "state"), Release,
             St("io", "notify")>>

Ops ==
    {"get_client", "mark_client_failure", "add_client",
     "get_client_user_info", "get_all_clients_user_info",
     "update_heartbeat_config", "test_all_clients", "test_client_unowned",
     "test_client"}

ThreadIdle == [op |-> "idle", at |-> 0, id |-> None]

\* a thread calls a pool method
ThreadCall(t, op, id) ==
    /\ thr[t].op = "idle"
    /\ op = "mark_client_failure" =>
           Reports(clients, client_order) < LockMaxReports
    /\ op = "test_client_unowned" => ~clients[id].own
    /\ op = "test_client" => clients[id].own
    /\ thr' = [thr EXCEPT ![t] = [op |-> op, at |-> 1, id |-> id]]
    /\ UNCHANGED <<poolVars, heartbeat_config, lock>>

\* the step thread t takes next
NextStep(t) ==
    IF thr[t].op = "idle" THEN St("none", "none")
    ELSE Program(thr[t].op)[thr[t].at]

\* what the access `what` of thread t does to the pool
Access(t, what) ==
    CASE what = "select" ->
           GetClient /\ UNCHANGED heartbeat_config
      [] what = "mark_failure" ->
           MarkClientFailure(thr[t].id) /\ UNCHANGED heartbeat_config
      [] what = "add" ->
           AddClient("C") /\ UNCHANGED heartbeat_config
      [] what = "state" ->
           /\ clients' = SetState(clients, thr[t].id,
                                  IF clients[thr[t].id].own THEN "offline"
                                  ELSE "anonymous", now)
           /\ UNCHANGED <<client_order, rotation_order, index, mode, now,
                          ret, heartbeat_config>>
      [] what = "heartbeat_config" ->
           /\ heartbeat_config' =
                  ApplyUpdate(heartbeat_config, [k \in {"enable"} |-> "True"])
           /\ UNCHANGED poolVars
      [] OTHER -> UNCHANGED <<poolVars, heartbeat_config>>

\* thread t takes its next step; a thread waits for a lock that is taken
ThreadStep(t) ==
    LET st == NextStep(t)
        last == thr[t].at = Len(Program(thr[t].op))
    IN  /\ thr[t].op # "idle"
        /\ thr' = [thr EXCEPT ![t] = IF last THEN ThreadIdle
                                     ELSE [@ EXCEPT !.at = @ + 1]]
        /\ CASE st.kind = "acquire" ->
                   /\ lock = Free
                   /\ lock' = t
                   /\ UNCHANGED <<poolVars, heartbeat_config>>
             [] st.kind = "release" ->
                   /\ lock' = Free
                   /\ UNCHANGED <<poolVars, heartbeat_config>>
             [] st.kind = "access" ->
                   /\ Access(t, st.what)
                   /\ UNCHANGED lock
             [] OTHER ->
                   UNCHANGED <<poolVars, heartbeat_config, lock>>

InitLock ==
    /\ \/ InitPool(<<"A", "B">>)
       \/ InitAnonymous
    /\ pc = <<>>
    /\ req = <<>>
    /\ reported = <<>>
    /\ got = <<>>
    /\ rounds = <<>>
    /\ fair = <<>>
    /\ streak = <<>>
    /\ call = <<>>
    /\ probe = <<>>
    /\ sent = <<>>
    /\ heartbeat_config = DefaultHeartbeat
    /\ file = <<>>
    /\ tick = <<>>
    /\ task = <<>>
    /\ lock = Free
    /\ thr = [t \in Threads |-> ThreadIdle]

NextLock ==
    /\ \E t \in Threads :
           \/ \E op \in Ops : ThreadCall(t, op, Head(client_order))
           \/ ThreadStep(t)
    /\ UNCHANGED <<reqVars, obsVars, probeVars, file, tick, task>>

SpecLock == InitLock /\ [][NextLock]_vars

----------------------------------------------------------------------------
(* Two test_client calls at a time on the pool of the config [A, B]: a     *)
(* task of a prober tick and a test triggered on its own, or two ticks.    *)

Overlapping == {1, 2}

InitOverlap ==
    /\ InitPool(<<"A", "B">>)
    /\ pc = <<>>
    /\ req = <<>>
    /\ reported = <<>>
    /\ got = <<>>
    /\ rounds = <<>>
    /\ fair = <<>>
    /\ streak = <<>>
    /\ call = <<>>
    /\ probe = [p \in Overlapping |-> ProbeInit]
    /\ sent = <<>>
    /\ NoHeartbeat

NextOverlap ==
    /\ \E p \in Overlapping :
           \/ \E id \in DOMAIN clients :
                  Len(sent) < OverlapMaxSent /\ ProbeStart(p, id)
           \/ ProbeLogin(p)
           \/ ProbeLoginRaises(p)
           \/ ProbeSearch(p)
           \/ ProbeSearchRaises(p)
    /\ UNCHANGED <<reqVars, obsVars, hbVars, lockVars>>

SpecOverlap == InitOverlap /\ [][NextOverlap]_vars

----------------------------------------------------------------------------
(* _heartbeat_loop: the background task.  Each round of `while True` calls *)
(* test_all_clients inside try/except Exception and then sleeps for the    *)
(* interval.                                                               *)

\* exceptions that leave test_all_clients: RuntimeError of
\* list(self.clients.keys()) on a dict that changes size, TypeError of
\* `client_id, result = item` on an item that is no pair
TickExcs == {"RuntimeError", "TypeError"}

\* mutant of Caught: the loop has no handler
CaughtNothing(exc) == FALSE

\* mutant of Caught: the handlers catch every exception
CaughtEverything(exc) == TRUE

\* except Exception: every exception but the BaseException-only ones
Caught(exc) == exc \notin {"CancelledError", "KeyboardInterrupt", "SystemExit"}

\* the task at the top of the loop; escaped: the last tick raised;
\* cancel: Task.cancel() was called and CancelledError is not thrown into
\* the coroutine yet
TaskStart == [stage |-> "start", escaped |-> FALSE, cancel |-> FALSE]

\* await self.test_all_clients() is called
LoopTick ==
    /\ task.stage = "start"
    /\ task' = [task EXCEPT !.stage = "probing"]
    /\ tick' = [TickInit EXCEPT !.stage = "called"]
    /\ UNCHANGED <<poolVars, probeVars>>

\* the snapshot is taken and the tasks of the tick run; a probe that
\* raises ends its task only
LoopProbe ==
    /\ task.stage = "probing"
    /\ \/ tick.stage = "called" /\ TickStart
       \/ \E i \in DOMAIN tick.tasks :
              \/ TaskAcquire(i) /\ Len(sent') <= LoopMaxSent
              \/ TaskProbe(i) /\ Len(sent') <= LoopMaxSent
              \/ TaskDelay(i)
    /\ UNCHANGED task

\* test_all_clients returns
LoopReturn ==
    /\ task.stage = "probing"
    /\ TickReturn
    /\ task' = [task EXCEPT !.stage = "sleeping", !.escaped = FALSE]

\* test_all_clients raises, at its id snapshot or after the gather
LoopRaise ==
    /\ task.stage = "probing"
    /\ \/ tick.stage = "called"
       \/ /\ tick.stage = "running"
          /\ \A i \in DOMAIN tick.tasks : tick.tasks[i].slot = "released"
    /\ \E exc \in TickExcs :
           /\ task' = [task EXCEPT !.escaped = TRUE,
                                   !.stage = IF Caught(exc) THEN "sleeping"
                                             ELSE "ended"]
           /\ tick' = [tick EXCEPT !.stage = "returned"]
           /\ ret' = [op |-> "test_all_clients", raised |-> exc]
    /\ UNCHANGED <<clients, client_order, rotation_order, index, mode, now,
                   probeVars>>

\* await asyncio.sleep(interval_seconds) ends
LoopSleep ==
    /\ task.stage = "sleeping"
    /\ task' = [task EXCEPT !.stage = "start"]
    /\ UNCHANGED <<poolVars, probeVars, tick>>

InitLoop ==
    /\ InitPool(<<"A", "B">>)
    /\ pc = <<>>
    /\ req = <<>>
    /\ reported = <<>>
    /\ got = <<>>
    /\ rounds = <<>>
    /\ fair = <<>>
    /\ streak = <<>>
    /\ call = <<>>
    /\ probe = <<>>
    /\ sent = <<>>
    /\ heartbeat_config = <<>>
    /\ file = <<>>
    /\ tick = TickInit
    /\ task = TaskStart
    /\ lock = <<>>
    /\ thr = <<>>

NextLoop ==
    /\ \/ LoopTick
       \/ LoopProbe
       \/ LoopReturn
       \/ LoopRaise
       \/ LoopSleep
    /\ UNCHANGED <<reqVars, obsVars, heartbeat_config, file, lockVars>>

\* the event loop runs a coroutine that can run, and every upstream call
\* and every sleep returns or raises
SpecLoop == InitLoop /\ [][NextLoop]_vars /\ WF_vars(NextLoop)

----------------------------------------------------------------------------
(* start_heartbeat and stop_heartbeat around the background task.  Both    *)
(* are plain functions called on the thread of the event loop, so they run *)
(* while the task is suspended at an await or has not run yet.  cancel()   *)
(* only asks for the cancellation: CancelledError is thrown into the       *)
(* coroutine when the event loop runs the task next, and the task is not   *)
(* done() before that.                                                     *)

\* self._heartbeat_task is None
NoTask == [stage |-> "none", escaped |-> FALSE, cancel |-> FALSE]

\* self._heartbeat_task and not self._heartbeat_task.done()
TaskPending(t) == t.stage \notin {"none", "ended"}

\* the task is suspended at an await (the gather of a tick, the sleep) or
\* was created and has not run
Suspended ==
    \/ task.stage = "start" /\ tick.stage = "idle"
    \/ task.stage = "probing" /\ tick.stage = "running"
    \/ task.stage = "sleeping"

\* is_heartbeat_enabled
is_heartbeat_enabled(config) == config.enable = "True"

\* start_heartbeat, with a running event loop
StartHeartbeat ==
    /\ task.stage \in {"none", "ended"} \/ Suspended
    /\ IF ~is_heartbeat_enabled(heartbeat_config) \/ TaskPending(task)
       THEN /\ ret' = [op |-> "start_heartbeat", value |-> FALSE]
            /\ UNCHANGED <<task, tick>>
       ELSE /\ ret' = [op |-> "start_heartbeat", value |-> TRUE]
            /\ task' = TaskStart
            /\ tick' = TickInit
    /\ Called("start_heartbeat", None)
    /\ UNCHANGED <<clients, client_order, rotation_order, index, mode, now,
                   probeVars>>

\* stop_heartbeat
StopHeartbeat ==
    /\ task.stage \in {"none", "ended"} \/ Suspended
    /\ IF TaskPending(task)
       THEN /\ ret' = [op |-> "stop_heartbeat", value |-> TRUE]
            /\ task' = [task EXCEPT !.cancel = TRUE]
       ELSE /\ ret' = [op |-> "stop_heartbeat", value |-> FALSE]
            /\ UNCHANGED task
    /\ Called("stop_heartbeat", None)
    /\ UNCHANGED <<clients, client_order, rotation_order, index, mode, now,
                   probeVars, tick>>

\* the probes of the tick whose activity query is awaited inside
\* try/except Exception of test_client
InSearch == {i \in DOMAIN probe : probe[i].stage = "search"}

\* the records after the handlers of the probes in ps wrote offline
RECURSIVE WriteOffline(_, _)
WriteOffline(d, ps) ==
    IF ps = {} THEN d
    ELSE LET i == CHOOSE j \in ps : TRUE
         IN  WriteOffline(SetState(d, probe[i].id, "offline", probe[i].at),
                          ps \ {i})

\* the event loop runs the cancelled task: CancelledError is raised at the
\* await the coroutine is suspended at.  At the gather it is raised in
\* every task of the tick too, and leaves test_all_clients for the try of
\* _heartbeat_loop; the sleep is outside the try; a coroutine that has not
\* run is never started.
LoopCancelled ==
    /\ task.cancel
    /\ TaskPending(task)
    /\ IF task.stage = "probing"
       THEN /\ clients' = IF Caught("CancelledError")
                          THEN WriteOffline(clients, InSearch)
                          ELSE clients
            /\ probe' = [i \in DOMAIN probe |->
                            IF probe[i].stage \in {"login", "search"}
                            THEN [probe[i] EXCEPT !.stage = "cancelled"]
                            ELSE probe[i]]
            /\ tick' = [tick EXCEPT !.stage = "cancelled"]
            /\ task' = IF Caught("CancelledError")
                       THEN [task EXCEPT !.stage = "sleeping",
                                         !.cancel = FALSE]
                       ELSE [task EXCEPT !.stage = "ended"]
       ELSE /\ task' = [task EXCEPT !.stage = "ended"]
            /\ UNCHANGED <<clients, probe, tick>>
    /\ call' = [call EXCEPT !.op = "none"]
    /\ UNCHANGED <<client_order, rotation_order, index, mode, now, ret, sent>>

\* a step of the task that is not cancelled
LoopStep ==
    /\ ~task.cancel
    /\ \/ LoopTick
       \/ LoopProbe
       \/ LoopReturn
       \/ LoopRaise
       \/ LoopSleep
    /\ call' = [call EXCEPT !.op = "none"]

InitBeat ==
    /\ InitPool(<<"A", "B">>)
    /\ pc = <<>>
    /\ req = <<>>
    /\ reported = <<>>
    /\ got = <<>>
    /\ rounds = <<>>
    /\ fair = <<>>
    /\ streak = <<>>
    /\ call = CallInit
    /\ probe = <<>>
    /\ sent = <<>>
    /\ \E e \in {"True", "False"} :
           heartbeat_config = [DefaultHeartbeat EXCEPT !.enable = e]
    /\ file = <<>>
    /\ tick = TickInit
    /\ task = NoTask
    /\ lock = <<>>
    /\ thr = <<>>

\* a step of the task
BeatStep ==
    /\ \/ LoopStep
       \/ LoopCancelled
    /\ UNCHANGED <<reqVars, got, rounds, fair, streak, heartbeat_config, file,
                   lockVars>>

NextBeat ==
    \/ /\ \/ StartHeartbeat
          \/ StopHeartbeat
       /\ UNCHANGED <<reqVars, got, rounds, fair, streak, heartbeat_config,
                      file, lockVars>>
    \/ BeatStep

\* the event loop runs a task that can run, and every upstream call and
\* every sleep returns or raises
SpecBeat == InitBeat /\ [][NextBeat]_vars /\ WF_vars(BeatStep)

----------------------------------------------------------------------------
(* update_heartbeat_config called from two threads.  The method takes no   *)
(* lock: the update of the in-memory config, the read of the file with the *)
(* build of the heart_beat section, and the write of the file are steps    *)
(* between which the other thread runs.                                    *)

\* the locals of a thread that is not inside update_heartbeat_config;
\* done: its calls that returned; failed: one of them returned an error
SaveIdle == [at |-> "idle", section |-> NoHeartBeat, done |-> 0,
             failed |-> FALSE]

\* the updates the admins send
SaveUpdates ==
    {Update([enable |-> e, question |-> Unset, interval |-> i,
             tg_bot_token |-> Unset, tg_chat_id |-> Unset]) :
         e \in {"True", Unset}, i \in {"12", Unset}}

\* the loop over the keys: the in-memory config takes the new values
SaveMemory(t) ==
    /\ thr[t].at = "idle"
    /\ thr[t].done < SaveMaxCalls
    /\ \E new_config \in SaveUpdates :
           heartbeat_config' = ApplyUpdate(heartbeat_config, new_config)
    /\ IF file.exists
       THEN /\ thr' = [thr EXCEPT ![t].at = "read"]
            /\ ret' = ret
       ELSE /\ thr' = [thr EXCEPT ![t].done = @ + 1]
            /\ ret' = [op |-> "update_heartbeat_config", status |-> "ok",
                       config |-> heartbeat_config']
    /\ UNCHANGED file

\* json.load of the file, then config["heart_beat"] is built from the
\* in-memory config as it is now; or the read raises
SaveRead(t) ==
    /\ thr[t].at = "read"
    /\ \/ /\ thr' = [thr EXCEPT ![t].at = "write",
                                ![t].section = DumpHeartBeat(heartbeat_config)]
          /\ ret' = ret
       \/ /\ thr' = [thr EXCEPT ![t].at = "idle", ![t].done = @ + 1,
                                ![t].failed = TRUE]
          /\ ret' = [op |-> "update_heartbeat_config", status |-> "error"]
    /\ UNCHANGED <<heartbeat_config, file>>

\* json.dump of the config read, with the section built; the call returns
\* a copy of the in-memory config
SaveWrite(t) ==
    /\ thr[t].at = "write"
    /\ file' = [file EXCEPT !.heart_beat = thr[t].section]
    /\ thr' = [thr EXCEPT ![t].at = "idle", ![t].done = @ + 1,
                          ![t].section = NoHeartBeat]
    /\ ret' = [op |-> "update_heartbeat_config", status |-> "ok",
               config |-> heartbeat_config]
    /\ UNCHANGED heartbeat_config

InitSave ==
    /\ \/ \E hb \in {NoHeartBeat, DumpHeartBeat(DefaultHeartbeat)} :
              /\ InitPool(<<"A", "B">>)
              /\ file = [exists |-> TRUE, heart_beat |-> hb,
                         tokens |-> <<"A", "B">>]
              /\ heartbeat_config = LoadHeartBeat(hb)
       \/ /\ InitAnonymous
          /\ file = NoFile
          /\ heartbeat_config = DefaultHeartbeat
    /\ pc = <<>>
    /\ req = <<>>
    /\ reported = <<>>
    /\ got = <<>>
    /\ rounds = <<>>
    /\ fair = <<>>
    /\ streak = <<>>
    /\ call = <<>>
    /\ probe = <<>>
    /\ sent = <<>>
    /\ tick = <<>>
    /\ task = <<>>
    /\ lock = <<>>
    /\ thr = [t \in Threads |-> SaveIdle]

NextSave ==
    /\ \E t \in Threads :
           \/ SaveMemory(t)
           \/ SaveRead(t)
           \/ SaveWrite(t)
    /\ UNCHANGED <<clients, client_order, rotation_order, index, mode, now,
                   reqVars, obsVars, probeVars, tick, task, lock>>

SpecSave == InitSave /\ [][NextSave]_vars

----------------------------------------------------------------------------
(* remove_client against the cursor: the pool of the config [A, B, C]      *)
(* takes acquires, outcome reports, removes and adds; each id is in the    *)
(* rotation once.                                                          *)

\* the first id of top met in rot from cursor position idx on, around
\* the end; None if there is none
FirstFrom(rot, idx, top) ==
    LET k == ScanSteps(rot, idx, top, 1)
    IN  IF rot = <<>> \/ k > Len(rot) THEN None
        ELSE rot[((idx + k - 1) % Len(rot)) + 1]

\* observer call, here: the last step was a remove that succeeded and left
\* a top tier of two or more records, of which `expect` is the first in
\* the rotation order and from the cursor of before the remove
CursorInit == [op |-> "none", expect |-> None]

CursorRemove ==
    \E id \in Ids :
        /\ RemoveClient(id)
        /\ call' = IF ret'.status = "ok"
                      /\ Cardinality(Tier(clients', now')) >= 2
                   THEN [op |-> "remove",
                         expect |-> FirstFrom(rotation_order, index,
                                              Tier(clients', now'))]
                   ELSE CursorInit

CursorAdd ==
    /\ \E id \in Ids : AddClient(id)
    /\ call' = CursorInit

CursorGet ==
    /\ GetClient
    /\ call' = CursorInit

CursorReport ==
    /\ \E id \in Ids :
          /\ Reports(clients, client_order) < CursorMaxReports
          /\ \/ MarkClientSuccess(id)
             \/ MarkClientFailure(id)
             \/ MarkClientProFailure(id)
    /\ call' = CursorInit

InitCursor ==
    /\ InitPool(<<"A", "B", "C">>)
    /\ pc = <<>>
    /\ req = <<>>
    /\ reported = <<>>
    /\ got = <<>>
    /\ rounds = <<>>
    /\ fair = <<>>
    /\ streak = <<>>
    /\ call = CursorInit
    /\ probe = <<>>
    /\ sent = <<>>
    /\ NoHeartbeat

NextCursor ==
    /\ \/ CursorRemove
       \/ CursorAdd
       \/ CursorGet
       \/ CursorReport
    /\ UNCHANGED <<reqVars, got, rounds, fair, streak, probeVars,
                   hbVars, lockVars>>

SpecCursor == InitCursor /\ [][NextCursor]_vars

----------------------------------------------------------------------------
(* Claims                                                                  *)

\* the step is a report of kind op on Rec (SpecRecord)
ReportStep(op) == streak'.flip # streak.flip /\ streak'.last = op

\* C1: after any sequence of admin mutations, requests and clock advances
\* on a bootstrapped pool, at least one record of the pool is enabled.
C1_SomeRecordEnabled ==
    \E id \in DOMAIN clients : clients[id].enabled

C3_WeightInRange ==
    \A id \in DOMAIN clients :
        10 <= clients[id].weight /\ clients[id].weight <= 100

\* the weight sits at its floor after one more decay than it takes to
\* get there
C3_Witness ==
    /\ streak.pros = 10
    /\ streak.w0 = 100
    /\ clients[Rec].weight = 10

\* C4: the record get_client returns has the largest weight among the
\* records available at the moment of selection.
C4_ReturnedHasMaxWeight ==
    ret.op = "get_client" /\ ret.client # None =>
        \A k \in DOMAIN clients :
            clients[k].enabled /\ now >= clients[k].available_after
                => clients[k].weight <= clients[ret.id].weight

\* a selection made while a lighter record is available and a heavier one
\* is not
C4_Witness ==
    /\ ret.op = "get_client"
    /\ ret.client # None
    /\ \E k \in DOMAIN clients :
           /\ clients[k].enabled /\ now >= clients[k].available_after
           /\ clients[k].weight < clients[ret.id].weight
    /\ \E k \in DOMAIN clients :
           ~(clients[k].enabled /\ now >= clients[k].available_after)

\* the cooldowns of C7, by the number of consecutive generic failures
C7_Cooldowns == <<60, 120, 240, 480, 960, 1920, 3600, 3600>>

C7_Cooldown(k) == IF k <= Len(C7_Cooldowns) THEN C7_Cooldowns[k] ELSE 3600

\* C7: the k-th consecutive generic failure of a record since its last
\* success or reset sets fail_count = k and available_after = now + the
\* k-th of 60, 120, 240, 480, 960, 1920, 3600, 3600, ... seconds, never
\* more than 3600, and leaves the weight unchanged.
C7_BackoffWalk ==
    [][ReportStep("failure") =>
          LET k == streak'.fails IN
          /\ clients'[Rec].fail_count = k
          /\ clients'[Rec].available_after = now + C7_Cooldown(k)
          /\ clients'[Rec].available_after - now <= 3600
          /\ clients'[Rec].weight = clients[Rec].weight]_vars

\* the eighth consecutive failure, the second at the saturated cooldown
C7_Witness ==
    /\ streak.last = "failure"
    /\ streak.fails = 8
    /\ clients[Rec].fail_count = 8
    /\ clients[Rec].available_after = now + 3600

\* C8: a success report sets fail_count = 0 and available_after = 0, adds
\* exactly 1 to request_count and sets weight to min(100, weight + 5),
\* whatever failures preceded it; a second success leaves fail_count and
\* available_after at zero.
C8_SuccessEffect ==
    [][ReportStep("success") =>
          /\ clients'[Rec].fail_count = 0
          /\ clients'[Rec].available_after = 0
          /\ clients'[Rec].request_count = clients[Rec].request_count + 1
          /\ clients'[Rec].weight =
                 (IF clients[Rec].weight + 5 < 100
                  THEN clients[Rec].weight + 5 ELSE 100)]_vars

\* a success that cleared the cooldown of several consecutive failures of
\* a degraded record
C8_Witness ==
    /\ streak.last = "success"
    /\ streak.cleared >= 3
    /\ clients[Rec].fail_count = 0
    /\ clients[Rec].available_after = 0
    /\ clients[Rec].weight < 100

\* C9: a capability failure adds 1 to capability_fail_count, sets weight
\* to max(10, weight - 10) and changes neither fail_count, available_after,
\* enabled nor request_count, so the record is as available after it as
\* before; ten of them from weight 100 leave weight 10.
C9_CapabilityFailureEffect ==
    [][ReportStep("pro_failure") =>
          /\ clients'[Rec].pro_fail_count = clients[Rec].pro_fail_count + 1
          /\ clients'[Rec].weight =
                 (IF clients[Rec].weight - 10 > 10
                  THEN clients[Rec].weight - 10 ELSE 10)
          /\ clients'[Rec].fail_count = clients[Rec].fail_count
          /\ clients'[Rec].available_after = clients[Rec].available_after
          /\ clients'[Rec].enabled = clients[Rec].enabled
          /\ clients'[Rec].request_count = clients[Rec].request_count
          /\ (clients'[Rec].enabled /\ now' >= clients'[Rec].available_after)
                 <=> (clients[Rec].enabled /\ now >= clients[Rec].available_after)
          /\ (streak'.pros = 10 /\ streak'.w0 = 100
                 => clients'[Rec].weight = 10)]_vars

\* the tenth capability failure in a row of a record that started at 100,
\* reported while the record was in cooldown
C9_Witness ==
    /\ streak.last = "pro_failure"
    /\ streak.pros = 10
    /\ streak.w0 = 100
    /\ clients[Rec].weight = 10
    /\ clients[Rec].fail_count > 0
    /\ now < clients[Rec].available_after

\* C5: when several available records share the largest weight,
\* get_client returns the first of them met from the rotation cursor on,
\* wrapping around, and leaves the cursor one past it; two consecutive
\* selections over an unchanged top tier of two or more return different
\* records; from [A(100), B(100), C(50)] with the cursor at 0, eight
\* acquire+success rounds return A, B, A, B, A, B, A, B.
C5_RoundRobin ==
    /\ ret.op = "get_client" /\ Cardinality(got.top) >= 2 =>
          LET n == Len(rotation_order)
              at(j) == rotation_order[((got.from + j) % n) + 1]
              j == CHOOSE j \in 0..(n - 1) :
                       /\ at(j) \in got.top
                       /\ \A i \in 0..(j - 1) : at(i) \notin got.top
          IN  /\ ret.id = at(j)
              /\ ret.client = at(j)
              /\ index = (got.from + j + 1) % n
    /\ got.a # None /\ Cardinality(got.top) >= 2 => got.a # got.b
    /\ rounds.on => rounds.ids = SubSeq(Pattern, 1, Len(rounds.ids))

\* the eighth round of the scenario is over, and the last two selections
\* were made over the same top tier
C5_Witness ==
    /\ rounds.on
    /\ Len(rounds.ids) = 8
    /\ rounds.pending = None
    /\ got.a # None
    /\ got.top = {"A", "B"}

\* each record of the window's tier was selected within 1 of n / |T| times
WithinOne ==
    \A k \in fair.T :
        /\ fair.cnt[k] * Cardinality(fair.T) - fair.n <= Cardinality(fair.T)
        /\ fair.n - fair.cnt[k] * Cardinality(fair.T) <= Cardinality(fair.T)

\* C6 as stated: over consecutive acquire-then-success rounds that begin
\* with a top tier T of two or more records, every record of T is selected
\* within 1 of N / |T| times.
C6_FairAmongEquals ==
    fair.T # {} => WithinOne

\* C6 amended: the same, for a top tier whose weight is 100.
C6_FairAtDefaultWeight ==
    fair.T # {} /\ fair.w = 100 => WithinOne

\* six rounds over a tier of two records of weight 100 and one lighter
\* record are over
C6_Witness ==
    /\ fair.T = {"A", "B"}
    /\ fair.w = 100
    /\ fair.n = 6
    /\ fair.pending = None
    /\ clients["C"].weight < 100

\* C10: a request of run_query that acquired a record reports exactly one
\* outcome for it: never two while it runs, and one when it has returned.
C10_ExactlyOneOutcome ==
    \A w \in Workers :
        /\ Len(reported[w]) <= 1
        /\ pc[w] = "done" /\ req[w].client # None => Len(reported[w]) = 1

\* C11: over probes of a record run one after another, a notification is
\* emitted by exactly the probes that take its state from a value other
\* than offline to offline, one per such probe; a probe that finds it
\* offline, or takes it out of offline, emits none.
C11_EdgeTriggered ==
    [][LET into == {id \in DOMAIN clients \cap DOMAIN clients' :
                       /\ clients[id].state # "offline"
                       /\ clients'[id].state = "offline"}
       IN  /\ Cardinality(into) <= 1
           /\ IF into = {} THEN sent' = sent
              ELSE \E id \in into : sent' = Append(sent, id)]_vars

\* A went offline twice, with a recovery in between, and its last probe
\* found it offline and left it so
C11_Witness ==
    /\ sent = <<"A", "A">>
    /\ probe[1].stage = "returned"
    /\ probe[1].id = "A"
    /\ probe[1].prev_state = "offline"
    /\ clients["A"].state = "offline"

\* C20: a probe that has returned left its record anonymous if it has no
\* cookies (no check made); offline if the login check found no user (no
\* activity query made); normal if the query's reply holds an answer;
\* offline if the reply holds none or the query raised.  So a record with
\* cookies is normal or offline after a probe.
C20_ProbeRule ==
    \A p \in DOMAIN probe :
        probe[p].stage = "returned" =>
            LET l == probe[p]
                w == clients[l.id]
            IN  /\ ~w.own =>
                      /\ w.state = "anonymous"
                      /\ l.user_info = None /\ l.response = None
                /\ w.own /\ l.user_info # "user" =>
                      /\ w.state = "offline"
                      /\ l.user_info \in UserInfos /\ l.response = None
                /\ w.own /\ l.user_info = "user" /\ l.response = "answer" =>
                      w.state = "normal"
                /\ w.own /\ l.user_info = "user" /\ l.response # "answer" =>
                      /\ w.state = "offline"
                      /\ l.response \in (Replies \cup {"raised"})
                /\ w.own => w.state \in {"normal", "offline"}

\* in a pool that holds a probed record without cookies, the probe of A
\* got a reply without an answer
C20_Witness ==
    /\ "anonymous" \in DOMAIN clients
    /\ clients["anonymous"].state = "anonymous"
    /\ probe[1].stage = "returned"
    /\ probe[1].id = "A"
    /\ probe[1].response = "no_answer"
    /\ clients["A"].state = "offline"

\* C12: when no record of a pool that holds records is available, the
\* earliest-availability value is a time later than now at which a record
\* of the pool becomes available again, disabled records or not.
C12_EarliestIsFuture ==
    /\ ret.op = "earliest"
    /\ DOMAIN clients # {}
    /\ Avail(clients, now) = {}
    => /\ ~ret.value.none
       /\ ret.value.at > now
       /\ \E k \in DOMAIN clients :
              clients[k].enabled /\ clients[k].available_after = ret.value.at

\* the step is the admin call op(id) (SpecAdmin)
AdminStep(op, id) ==
    call'.op = op /\ call'.id = id /\ call'.flip # call.flip

\* the step leaves the record map, the rotation sequence, the cursor and
\* the mode as they were
PoolUnchanged ==
    UNCHANGED <<clients, client_order, rotation_order, index, mode>>

\* C13: disable of a known enabled record returns error and changes
\* nothing exactly when no other record is enabled; otherwise it returns ok
\* and clears the record's enabled flag, nothing else.
C13_DisableRule ==
    [][\A id \in Ids :
          AdminStep("disable", id) /\ id \in DOMAIN clients
              /\ clients[id].enabled =>
          IF \A k \in DOMAIN clients \ {id} : ~clients[k].enabled
          THEN ret'.status = "error" /\ PoolUnchanged
          ELSE /\ ret'.status = "ok"
               /\ clients' = [clients EXCEPT ![id].enabled = FALSE]
               /\ UNCHANGED <<client_order, rotation_order, index, mode>>]_vars

\* the pool [A, B] after disable(A) was accepted and disable(B) refused
C13_Witness ==
    /\ client_order = <<"A", "B">>
    /\ call.op = "disable" /\ call.id = "B"
    /\ ret.status = "error"
    /\ ~clients["A"].enabled
    /\ clients["B"].enabled

\* C14: in a pool of exactly one record, remove and disable of that record
\* return error and leave the pool unchanged.
C14_SoleRecordRefused ==
    [][\A id \in Ids :
          (AdminStep("remove", id) \/ AdminStep("disable", id))
              /\ DOMAIN clients = {id} =>
          ret'.status = "error" /\ PoolUnchanged]_vars

\* C15: an admin call that returns error leaves the record map, the
\* rotation sequence, the cursor, the mode and every record unchanged.
C15_ErrorChangesNothing ==
    [][\A op \in {"add", "remove", "enable", "disable", "reset"}, id \in Ids :
          AdminStep(op, id) /\ ret'.status = "error" => PoolUnchanged]_vars

\* add of an id the pool holds was refused, while that record bears a
\* failure and the cursor has moved
C15_Witness ==
    /\ call.op = "add"
    /\ ret.status = "error"
    /\ clients[call.id].fail_count = 1
    /\ index > 0

\* C16: the rotation sequence holds each id of the record map exactly once
\* and nothing else, in insertion order.
C16_RotationIsTheMap ==
    /\ Len(rotation_order) = Cardinality(DOMAIN clients)
    /\ Range(rotation_order) = DOMAIN clients
    /\ rotation_order = client_order

\* C17: reset of a known id sets its fail_count, pro_fail_count and
\* available_after to 0 and its weight to 100, and leaves its enabled flag,
\* state, last_heartbeat and request_count, the cursor and every other
\* record as they were.
C17_ResetEffect ==
    [][\A id \in Ids :
          AdminStep("reset", id) /\ id \in DOMAIN clients =>
              /\ ret'.status = "ok"
              /\ clients'[id].fail_count = 0
              /\ clients'[id].pro_fail_count = 0
              /\ clients'[id].available_after = 0
              /\ clients'[id].weight = 100
              /\ clients'[id].enabled = clients[id].enabled
              /\ clients'[id].state = clients[id].state
              /\ clients'[id].last_heartbeat = clients[id].last_heartbeat
              /\ clients'[id].request_count = clients[id].request_count
              /\ index' = index
              /\ DOMAIN clients' = DOMAIN clients
              /\ \A k \in DOMAIN clients \ {id} : clients'[k] = clients[k]
              /\ UNCHANGED <<client_order, rotation_order, mode>>]_vars

\* A was reset while disabled, probed offline, already used and with the
\* cursor moved, next to a record B in cooldown
C17_Witness ==
    /\ call.op = "reset" /\ call.id = "A"
    /\ ret.status = "ok"
    /\ ~clients["A"].enabled
    /\ clients["A"].state = "offline"
    /\ clients["A"].last_heartbeat # <<>>
    /\ clients["A"].request_count = 1
    /\ index > 0
    /\ clients["B"].fail_count = 1

\* the weight restore of C18
WeightRestore(w) == [w EXCEPT !.weight = 100]

\* A was reset when it was like B, and B has since had n >= 1 successes
ResetAgainstSuccesses == call.op = "reset" /\ call.same /\ call.n >= 1

\* C18 as stated: from the same record state, reset leaves the record state
\* that successes followed by a weight restore leave.
C18_ResetIsSuccesses ==
    ResetAgainstSuccesses => clients["A"] = WeightRestore(clients["B"])

\* C18 amended: they leave the same fail_count, available_after, weight,
\* enabled flag, state and last_heartbeat.
C18_ResetIsSuccessesForSelection ==
    ResetAgainstSuccesses =>
        LET a == clients["A"]
            b == WeightRestore(clients["B"])
        IN  /\ a.fail_count = b.fail_count
            /\ a.available_after = b.available_after
            /\ a.weight = b.weight
            /\ a.enabled = b.enabled
            /\ a.state = b.state
            /\ a.last_heartbeat = b.last_heartbeat

\* A and B, each with a capability failure behind it, after the reset of
\* A and three successes of B
C18_Witness ==
    /\ ResetAgainstSuccesses
    /\ call.n = 3
    /\ clients["B"].pro_fail_count = 1
    /\ clients["B"].weight = 100
    /\ clients["A"].available_after = 0
    /\ clients["B"].request_count = 3

\* C19: a record whose fail_count is 0 is not in cooldown: its
\* available_after is not later than now.
C19_NoFailureNoCooldown ==
    \A id \in DOMAIN clients :
        clients[id].fail_count = 0 => clients[id].available_after <= now

\* a success cleared a failure whose cooldown had not run out
C19_Witness ==
    /\ streak.last = "success"
    /\ streak.cleared = 1
    /\ now < INITIAL_BACKOFF
    /\ clients[Rec].fail_count = 0
    /\ clients[Rec].available_after = 0

\* the step ends a probe of prober p in a failure: the login check or the
\* activity query raised
ProbeFails(p) ==
    /\ probe[p].stage \in {"login", "search"}
    /\ \/ probe'[p].stage = "raised"
       \/ /\ probe'[p].stage = "returned"
          /\ probe'[p].response \in {"raised", "not_dict"}

\* C21: a probe of an owned record in which the login check or the
\* activity query raises returns to its caller, leaves the record's state
\* offline and emits at most one notification.
C21_FailureEndsOffline ==
    [][\A p \in DOMAIN probe :
           ProbeFails(p) =>
               /\ probe'[p].stage = "returned"
               /\ clients'[probe[p].id].state = "offline"
               /\ Len(sent') <= Len(sent) + 1]_vars

\* C22: while a tick runs, at most 5 of its tasks hold a slot of the
\* semaphore, and a task that has given its slot back has finished both its
\* probe and its post-probe delay.
C22_SlotDiscipline ==
    tick.stage = "running" =>
        /\ Cardinality(Holding(tick)) <= 5
        /\ \A i \in DOMAIN tick.tasks :
               tick.tasks[i].slot = "released" =>
                   tick.tasks[i].probed /\ tick.tasks[i].delayed

\* the record w as a constructor leaves it, with the given liveness
StartsAs(w, state) ==
    w = [own |-> w.own, fail_count |-> 0, available_after |-> 0,
         request_count |-> 0, weight |-> 100, pro_fail_count |-> 0,
         enabled |-> TRUE, state |-> state, last_heartbeat |-> <<>>]

UpdateStep(status) ==
    /\ ret'.op = "update_heartbeat_config"
    /\ ret'.status = status
    /\ call'.op = "update_heartbeat_config"

\* C24: an update_heartbeat_config call whose rewrite of the config file
\* fails returns status error, leaves every supplied value in the
\* in-memory heartbeat config, the other keys as they were, and changes no
\* record.
C24_FailedSaveKeepsChange ==
    [][UpdateStep("error") =>
           /\ \A k \in Keys :
                  heartbeat_config'[k] =
                      IF k \in DOMAIN call'.new_config
                      THEN call'.new_config[k] ELSE heartbeat_config[k]
           /\ clients' = clients
           /\ client_order' = client_order
           /\ rotation_order' = rotation_order]_vars

\* a failed update that switched the heartbeat on and set a bot token and
\* a null chat id, on a pool with an added record: the file still has the
\* old section
C24_Witness ==
    /\ ret.op = "update_heartbeat_config"
    /\ ret.status = "error"
    /\ DOMAIN call.new_config = {"enable", "tg_bot_token", "tg_chat_id"}
    /\ heartbeat_config.enable = "True"
    /\ heartbeat_config.tg_bot_token = "'t'"
    /\ heartbeat_config.tg_chat_id = "None"
    /\ file.exists
    /\ LoadHeartBeat(file.heart_beat).enable = "None"
    /\ LoadHeartBeat(file.heart_beat).tg_chat_id = "'c'"
    /\ "C" \in DOMAIN clients

\* C25: on a pool bootstrapped from a config file, after an
\* update_heartbeat_config call that returned ok the heartbeat config that
\* _load_from_config reads from the rewritten file equals the in-memory
\* one, whatever keys and values were supplied, null included, and the
\* tokens list of the file is as before.
C25_SaveReload ==
    [][UpdateStep("ok") /\ file.exists =>
           /\ LoadHeartBeat(file'.heart_beat) = heartbeat_config'
           /\ file'.tokens = file.tokens]_vars

\* an update that set enable and the bot token to null was saved, after
\* an admin add that the file does not show
C25_Witness ==
    /\ ret.op = "update_heartbeat_config"
    /\ ret.status = "ok"
    /\ file.exists
    /\ call.new_config =
           [k \in {"enable", "tg_bot_token"} |-> "None"]
    /\ heartbeat_config.enable = "None"
    /\ file.heart_beat.obj["enable"] = "null"
    /\ file.heart_beat.obj["question"] = "\"q0\""
    /\ "C" \in DOMAIN clients
    /\ file.tokens = <<"A", "B">>

\* C26: a thread that is about to read pool state for a decision, or to
\* write a record field or the heartbeat config, holds the pool lock.
C26_AccessUnderLock ==
    \A t \in Threads : NextStep(t).kind = "access" => lock = t

\* C27: a thread that is waiting for the upstream service or the file
\* system does not hold the pool lock.
C27_NoIoUnderLock ==
    \A t \in Threads : NextStep(t).kind = "io" => lock # t

\* C28: the earliest-available value that run_query puts into its
\* NoAvailableClients answer is a timestamp, not None.
C28_AnswerHasTimestamp ==
    \A w \in Workers :
        pc[w] = "done" /\ req[w].served > 0 /\ req[w].client = None
        /\ ret.op = "earliest"
        => ~ret.value.none

\* C29: with probes that overlap, a step sends one notification if it
\* takes a record's state from a value other than offline to offline, and
\* none otherwise.
C29_OnePerTransition ==
    [][LET into == {id \in DOMAIN clients :
                       /\ clients[id].state # "offline"
                       /\ clients'[id].state = "offline"}
       IN  Len(sent') = Len(sent) + Cardinality(into)]_vars

\* C30: whatever the probes and the ticks raise, the heartbeat task never
\* ends: it is probing again and again, and sleeping again and again.
C30_TicksForever ==
    /\ []<>(task.stage = "probing")
    /\ []<>(task.stage = "sleeping")

\* a tick in which the login check of a probe raised, after a tick that
\* ended in an exception
C30_Witness ==
    /\ task.stage = "probing"
    /\ task.escaped
    /\ \E i \in DOMAIN tick.tasks :
           /\ probe[i].stage = "raised"
           /\ tick.tasks[i].slot = "released"

\* C38: run_query reports a generic failure for a record only after an
\* upstream request was issued with its handle: the report of a request
\* that local validation rejected leaves fail_count and available_after
\* of the acquired record as they were.
C38_FailureOnlyAfterUpstream ==
    [][\A w \in Workers :
           pc[w] = "handler" /\ pc'[w] = "done" /\ ~req[w].issued
           => LET id == req[w].id
              IN  /\ clients'[id].fail_count = clients[id].fail_count
                  /\ clients'[id].available_after
                         = clients[id].available_after]_vars

\* C31: a heartbeat task that stop_heartbeat cancelled ends, and from the
\* cancel() on it starts no tick and no probe and writes nothing: the
\* CancelledError raised at its await is caught neither by the loop nor by
\* a probe.
C31_CancelEnds ==
    /\ [](task.cancel => <>(task.stage = "ended"))
    /\ [][task.cancel /\ TaskPending(task)
          => /\ clients' = clients
             /\ sent' = sent
             /\ tick' = tick \/ tick'.stage = "cancelled"
             /\ DOMAIN probe' = DOMAIN probe
             /\ \A i \in DOMAIN probe :
                    probe'[i].stage \in {"login", "search"}
                    => probe'[i] = probe[i]]_vars

\* the task ended by a cancellation that found a tick with the activity
\* query of one probe and the login check of another in flight
C31_Witness ==
    /\ task.stage = "ended"
    /\ task.cancel
    /\ tick.stage = "cancelled"
    /\ \E i, j \in DOMAIN probe :
           /\ probe[i].stage = "cancelled" /\ probe[i].user_info # None
           /\ probe[j].stage = "cancelled" /\ probe[j].user_info = None

\* C32: with the heartbeat enabled, start_heartbeat called when there is
\* no unfinished task, or when the one there is was cancelled by
\* stop_heartbeat, returns True and leaves a running loop; it returns False
\* only if the heartbeat is disabled or a task that was not cancelled is
\* still running, and then creates nothing.
C32_StartAfterStop ==
    [][call'.op = "start_heartbeat" /\ call'.flip # call.flip
       => LET enabled == is_heartbeat_enabled(heartbeat_config)
              running == TaskPending(task) /\ ~task.cancel
          IN  /\ enabled /\ ~running
                 => ret'.value /\ TaskPending(task') /\ ~task'.cancel
              /\ ~ret'.value => ~enabled \/ running
              /\ ~ret'.value => task' = task]_vars

\* the fields of record id that outcome reports, reset and the admin
\* switches write are the same after the step
DispatchFieldsKept(id) ==
    /\ clients'[id].enabled = clients[id].enabled
    /\ clients'[id].fail_count = clients[id].fail_count
    /\ clients'[id].available_after = clients[id].available_after
    /\ clients'[id].weight = clients[id].weight
    /\ clients'[id].request_count = clients[id].request_count
    /\ clients'[id].pro_fail_count = clients[id].pro_fail_count

\* C33: a step of a probe changes no record in anything but state and
\* last_heartbeat; an outcome report, a reset and every other pool call
\* leave state and last_heartbeat of every record as they were.
C33_ProbeFrame ==
    [][/\ DOMAIN clients' = DOMAIN clients
       /\ \A id \in DOMAIN clients :
              IF probe' # probe
              THEN DispatchFieldsKept(id)
              ELSE /\ clients'[id].state = clients[id].state
                   /\ clients'[id].last_heartbeat
                          = clients[id].last_heartbeat]_vars

\* acquire returns a record that a probe found offline after an outcome
\* was reported for it
C33_Witness ==
    /\ ret.op = "get_client"
    /\ ret.raised = None
    /\ ret.id \in DOMAIN clients
    /\ clients[ret.id].state = "offline"
    /\ clients[ret.id].request_count > 0

\* C34: a call of get_client changes no record, nor the map or the
\* rotation: at most the cursor moves, and the record it returned is
\* still available after the call.
C34_AcquireFrame ==
    [][ret'.op = "get_client"
       => /\ clients' = clients
          /\ client_order' = client_order
          /\ rotation_order' = rotation_order
          /\ ret'.raised = None /\ ret'.client # None
             => is_available(clients'[ret'.id], now')]_vars

\* A was acquired twice in a row with nothing ever reported for it
C34_Witness ==
    /\ ret.op = "get_client"
    /\ got.a = "A"
    /\ got.b = "A"
    /\ clients["A"] = NewWrapper(TRUE)

\* C35: once every call of update_heartbeat_config has returned, none of
\* them with an error, the heart_beat section of the config file holds the
\* in-memory heartbeat config, overlapping calls included.
C35_FileIsMemory ==
    /\ file.exists
    /\ \A t \in Threads : thr[t].at = "idle" /\ ~thr[t].failed
    /\ \E t \in Threads : thr[t].done > 0
    => file.heart_beat = DumpHeartBeat(heartbeat_config)

\* C36: in every state the pool reaches through acquires, adds and
\* removes, the cursor is an index of the rotation, every id of the
\* rotation is a key of the record map, and no acquire ends in a failed
\* lookup.
C36_RotationSound ==
    /\ index >= 0
    /\ index < Len(rotation_order)
    /\ Range(rotation_order) \subseteq DOMAIN clients
    /\ ret.op = "get_client" => ret.raised = None

\* C37: the acquire that follows a successful remove over a top tier of
\* two or more records returns the first remaining record of the tier in
\* the rotation order and from the cursor of before the remove.
C37_RemoveKeepsRotation ==
    [][call.op = "remove" /\ ret'.op = "get_client"
       => ret'.raised = None /\ ret'.id = call.expect]_vars

====
